---- MODULE Spec2Model ----
(***************************************************************************)
(* A model of github.com/wzshiming/requests: the ordered parameter store   *)
(* (paramPairs), request cloning and dispatch (Request.Clone / Request.do) *)
(* and the response caches (memoryCacheDir, fileCacheDir).                 *)
(*                                                                         *)
(* Go values that are pointers or slices are modelled on an explicit heap: *)
(*   pairs   - the allocated paramPair objects, a pointer is an index      *)
(*   arrays  - the backing arrays of slices, Len(arrays[a]) is the cap     *)
(*   a slice - [arr |-> a, len |-> n]; the nil slice is [arr 0, len 0]     *)
(* so that sharing between a value and its copy is part of the state.      *)
(***************************************************************************)
EXTENDS Integers, Sequences, FiniteSets, TLC

VARIABLES
    pairs,      \* heap of paramPair objects: Seq([Param, Value])
    arrays,     \* heap of backing arrays: Seq(Seq(pointer)), 0 is a nil slot
    st,         \* the parameter stores under test: "s" and its clone "c"
    cloned,     \* whether c = s.Clone() has been taken
    res,        \* result of the last Search: [ok, ptr]
    op,         \* the last operation performed (kind, target, arguments)
    nops,       \* number of calls made so far
    urls,       \* heap of url.URL objects: Seq([Host, User, Path, RawQuery])
    readers,    \* heap of io.Reader objects: Seq([data, pos, err])
    mfiles,     \* heap of multiFile objects
    reqs,       \* the Request objects: the template "r" and its clone "n"
    rcloned,    \* whether n = r.Clone() has been taken
    sent,       \* the requests handed to the transport, in order
    out,        \* outcome of the last send: "none", "ok", "error", "panic"
    mem,        \* the sync.Map held by the value MemoryCache() returned
    disk,       \* the files under the fileCacheDir directory, by name
    cur,        \* the processed Response the caller holds, if any
    got,        \* result of the last cache call: [err, resp]
    thr,        \* the goroutines calling one cache concurrently, by id
    bench       \* arguments and results of the function under test

requestVars == <<urls, readers, mfiles, reqs, rcloned, sent, out>>

cacheVars == <<mem, disk, cur, got>>

auxVars == <<thr, bench>>

----------------------------------------------------------------------------
(* Bounds *)

MaxStoreOps == 3

MaxReqOps == 3

MaxCacheOps == 3

----------------------------------------------------------------------------
(* Strings.  Go compares strings byte-wise (lexicographically); the names  *)
(* used by the model are listed with their bytes.                          *)

StoreNames == {"a", "ab", "b"}

StoreValues == {"v1", "v2"}

Bytes(s) ==
    CASE s = "a"  -> <<97>>
      [] s = "ab" -> <<97, 98>>
      [] s = "b"  -> <<98>>
      [] s = "p"  -> <<112>>
      [] s = "q"  -> <<113>>
      [] s = "f"  -> <<102>>
      [] s = "Authorization" -> <<65, 117, 116, 104, 111, 114, 105, 122, 97, 116, 105, 111, 110>>
      [] s = "Content-Type"  -> <<67, 111, 110, 116, 101, 110, 116, 45, 84, 121, 112, 101>>
      [] s = "User-Agent"    -> <<85, 115, 101, 114, 45, 65, 103, 101, 110, 116>>
      [] s = "X-Id"          -> <<88, 45, 73, 100>>
      [] s = "x"  -> <<120>>
      [] OTHER -> <<>>

Min(a, b) == IF a < b THEN a ELSE b

\* x < y for byte sequences, as Go's string comparison
SeqLess(x, y) ==
    \E i \in 1..(Min(Len(x), Len(y)) + 1) :
        /\ \A k \in 1..(i - 1) : x[k] = y[k]
        /\ \/ i > Len(x) /\ i <= Len(y)
           \/ i <= Len(x) /\ i <= Len(y) /\ x[i] < y[i]

\* every string the model compares
Strings ==
    {"a", "ab", "b", "p", "q", "f", "x",
     "Authorization", "Content-Type", "User-Agent", "X-Id"}

\* the order of Strings, computed once
StrOrder == [a \in Strings |-> {b \in Strings : SeqLess(Bytes(a), Bytes(b))}]

StrLess(a, b) == b \in StrOrder[a]

StrLessEq(a, b) == a = b \/ StrLess(a, b)

----------------------------------------------------------------------------
(* Slices and the heap.  H is a record [pairs, arrays].                    *)

NilSlice == [arr |-> 0, len |-> 0]

Cap(H, t) == IF t.arr = 0 THEN 0 ELSE Len(H.arrays[t.arr])

\* capacity chosen by append when the backing array is full (runtime
\* growslice on pointer-sized elements: 0 -> 1, then doubling)
GrowCap(c) == IF c = 0 THEN 1 ELSE 2 * c

\* append(t, x)
SliceAppend(H, t, x) ==
    IF t.len < Cap(H, t)
    THEN [H |-> [H EXCEPT !.arrays[t.arr][t.len + 1] = x],
          t |-> [t EXCEPT !.len = @ + 1]]
    ELSE LET old == IF t.arr = 0 THEN <<>> ELSE H.arrays[t.arr]
             na  == [k \in 1..GrowCap(Cap(H, t)) |->
                        IF k <= t.len THEN old[k]
                        ELSE IF k = t.len + 1 THEN x ELSE 0]
         IN [H |-> [H EXCEPT !.arrays = Append(@, na)],
             t |-> [arr |-> Len(H.arrays) + 1, len |-> t.len + 1]]

\* the pointers visible through slice t
Ptrs(H, t) == [k \in 1..t.len |-> H.arrays[t.arr][k]]

\* the entries (name, value) observable through slice t
View(H, t) == [k \in 1..t.len |-> H.pairs[H.arrays[t.arr][k]]]

\* &paramPair{Param: param, Value: value}
NewPair(H, param, value) ==
    [H |-> [H EXCEPT !.pairs = Append(@, [Param |-> param, Value |-> value])],
     ptr |-> Len(H.pairs) + 1]

----------------------------------------------------------------------------
(* paramPairs (src/util.go)                                                *)

\* t.Len()
PLen(t) == t.len

\* t.Index(i), i is 0-based; 0 is nil
Index(H, t, i) ==
    IF i >= PLen(t) \/ i < 0 THEN 0 ELSE H.arrays[t.arr][i + 1]

\* the closure passed to sort.Search by SearchIndex
SearchPredGE(H, t, name, i) ==
    LET d == Index(H, t, i)
    IN  IF d = 0 THEN FALSE ELSE StrLessEq(H.pairs[d].Param, name)

SearchPredAsc(H, t, name, i) ==
    LET d == Index(H, t, i)
    IN  IF d = 0 THEN FALSE ELSE StrLess(name, H.pairs[d].Param)

SearchPred(H, t, name, i) ==
    LET d == Index(H, t, i)
    IN  IF d = 0 THEN FALSE ELSE StrLess(H.pairs[d].Param, name)

\* sort.Search(n, f): binary search for the smallest index in [i, j) at
\* which f is true, assuming f is false on a prefix and true on the rest
RECURSIVE SortSearch(_, _, _, _, _)
SortSearch(H, t, name, i, j) ==
    IF i < j
    THEN LET h == (i + j) \div 2
         IN  IF ~SearchPred(H, t, name, h)
             THEN SortSearch(H, t, name, h + 1, j)
             ELSE SortSearch(H, t, name, i, h)
    ELSE i

\* t.SearchIndex(name)
SearchIndex(H, t, name) == SortSearch(H, t, name, 0, PLen(t))

\* t.add(i, n): append(nil), shift [i, l-1) right by one, store n at i
addAtEnd(H, t, i, n) == SliceAppend(H, t, n)

add(H, t, i, n) ==
    LET a  == SliceAppend(H, t, 0)
        l  == a.t.len
        ar == a.H.arrays[a.t.arr]
        sh == [k \in 1..Len(ar) |->
                  IF k = i + 1 THEN n
                  ELSE IF k > i + 1 /\ k <= l THEN ar[k - 1]
                  ELSE ar[k]]
    IN  [H |-> [a.H EXCEPT !.arrays[a.t.arr] = sh], t |-> a.t]

\* t.Add(param, value)
Add(H, t, param, value) ==
    LET i == SearchIndex(H, t, param)
        n == NewPair(H, param, value)
    IN  add(n.H, t, i, n.ptr)

\* t.AddReplace(param, value)
AddReplaceAlwaysAdd(H, t, param, value) == Add(H, t, param, value)

AddReplace(H, t, param, value) ==
    LET i  == SearchIndex(H, t, param)
        tt == Index(H, t, i - 1)
    IN  IF tt = 0 \/ H.pairs[tt].Param # param
        THEN LET n == NewPair(H, param, value) IN add(n.H, t, i, n.ptr)
        ELSE [H |-> [H EXCEPT !.pairs[tt].Value = value], t |-> t]

\* t.AddNoRepeat(param, value)
AddNoRepeatOverwrite(H, t, param, value) == AddReplace(H, t, param, value)

AddNoRepeat(H, t, param, value) ==
    LET i  == SearchIndex(H, t, param)
        tt == Index(H, t, i - 1)
    IN  IF tt = 0 \/ H.pairs[tt].Param # param
        THEN LET n == NewPair(H, param, value) IN add(n.H, t, i, n.ptr)
        ELSE [H |-> H, t |-> t]

\* t.Search(name): (pointer, found)
SearchAtIndex(H, t, name) ==
    LET i  == SearchIndex(H, t, name)
        tt == Index(H, t, i)
    IN  IF tt = 0 \/ H.pairs[tt].Param # name
        THEN [ptr |-> 0, ok |-> FALSE]
        ELSE [ptr |-> tt, ok |-> TRUE]

Search(H, t, name) ==
    LET i == SearchIndex(H, t, name)
    IN  IF i = 0 THEN [ptr |-> 0, ok |-> FALSE]
        ELSE LET tt == Index(H, t, i - 1)
             IN  IF tt = 0 \/ H.pairs[tt].Param # name
                 THEN [ptr |-> 0, ok |-> FALSE]
                 ELSE [ptr |-> tt, ok |-> TRUE]

\* t.Clone(): make(paramPairs, len(*t)); copy(n, *t)
PairsClone(H, t) ==
    IF t.len = 0 THEN [H |-> H, t |-> NilSlice]
    ELSE [H |-> [H EXCEPT !.arrays = Append(@, Ptrs(H, t))],
          t |-> [arr |-> Len(H.arrays) + 1, len |-> t.len]]

----------------------------------------------------------------------------
(* The parameter store driven by a caller: a store s, created empty, and   *)
(* a clone c taken at some point; both are then used independently.        *)

Heap == [pairs |-> pairs, arrays |-> arrays]

\* a Request as newRequest leaves it
NewRequest ==
    [baseURL |-> 0, method |-> "GET",
     headerParam |-> NilSlice, queryParam |-> NilSlice,
     pathParam |-> NilSlice, formParam |-> NilSlice,
     multiFiles |-> NilSlice, body |-> 0]

\* the request variables while only the parameter store is exercised
RequestIdle ==
    /\ urls = <<>>
    /\ readers = <<>>
    /\ mfiles = <<>>
    /\ reqs = [r |-> NewRequest, n |-> NewRequest]
    /\ rcloned = FALSE
    /\ sent = <<>>
    /\ out = "none"

\* cache names used by the caller
CacheKeys == {"k1", "k2"}

\* an absent map entry, file or response is <<>>, a present one <<x>>
NoResult == [err |-> "-", resp |-> <<>>]

\* the cache variables while no cache is exercised
CacheIdle ==
    /\ mem = [k \in CacheKeys |-> <<>>]
    /\ disk = [k \in CacheKeys |-> <<>>]
    /\ cur = <<>>
    /\ got = NoResult

\* no goroutine is running and no function is under test
AuxIdle ==
    /\ thr = <<>>
    /\ bench = <<>>

NoOp == [kind |-> "none", target |-> "-", param |-> "-", value |-> "-"]

StoreInit ==
    /\ pairs = <<>>
    /\ arrays = <<>>
    /\ st = [s |-> NilSlice, c |-> NilSlice]
    /\ cloned = FALSE
    /\ res = [ptr |-> 0, ok |-> FALSE]
    /\ op = NoOp
    /\ nops = 0
    /\ RequestIdle
    /\ CacheIdle
    /\ AuxIdle

Targets == IF cloned THEN {"s", "c"} ELSE {"s"}

StoreApply(kind, x, param, value, r) ==
    /\ nops < MaxStoreOps
    /\ pairs' = r.H.pairs
    /\ arrays' = r.H.arrays
    /\ st' = [st EXCEPT ![x] = r.t]
    /\ op' = [kind |-> kind, target |-> x, param |-> param, value |-> value]
    /\ nops' = nops + 1
    /\ UNCHANGED <<cloned, res, requestVars, cacheVars, auxVars>>

StoreAdd ==
    \E x \in Targets, param \in StoreNames, value \in StoreValues :
        StoreApply("Add", x, param, value, Add(Heap, st[x], param, value))

StoreAddReplace ==
    \E x \in Targets, param \in StoreNames, value \in StoreValues :
        StoreApply("AddReplace", x, param, value,
                   AddReplace(Heap, st[x], param, value))

StoreAddNoRepeat ==
    \E x \in Targets, param \in StoreNames, value \in StoreValues :
        StoreApply("AddNoRepeat", x, param, value,
                   AddNoRepeat(Heap, st[x], param, value))

StoreClone ==
    /\ ~cloned
    /\ LET r == PairsClone(Heap, st.s)
       IN  /\ pairs' = r.H.pairs
           /\ arrays' = r.H.arrays
           /\ st' = [st EXCEPT !.c = r.t]
    /\ cloned' = TRUE
    /\ op' = [kind |-> "Clone", target |-> "s", param |-> "-", value |-> "-"]
    /\ UNCHANGED <<res, nops, requestVars, cacheVars, auxVars>>

StoreSearch ==
    \E x \in Targets, name \in StoreNames :
        /\ nops < MaxStoreOps
        /\ res' = Search(Heap, st[x], name)
        /\ op' = [kind |-> "Search", target |-> x, param |-> name, value |-> "-"]
        /\ nops' = nops + 1
        /\ UNCHANGED <<pairs, arrays, st, cloned, requestVars, cacheVars, auxVars>>

StoreNext ==
    \/ StoreAdd
    \/ StoreAddReplace
    \/ StoreAddNoRepeat
    \/ StoreClone
    \/ StoreSearch

vars == <<pairs, arrays, st, cloned, res, op, nops, requestVars, cacheVars, auxVars>>

StoreSpec == StoreInit /\ [][StoreNext]_vars

----------------------------------------------------------------------------
(* Request (src/request.go) with the encoders it calls                     *)
(* (src/unnamed/part_002).  G is the whole heap: a record with the fields  *)
(* pairs, arrays, urls, readers and mfiles.  Every operator below returns  *)
(* [G |-> the heap afterwards, q |-> the Request afterwards].              *)

\* textproto.CanonicalMIMEHeaderKey on the header names the model passes
CanonicalMIMEHeaderKey(s) ==
    CASE s = "x-id" -> "X-Id"
      [] s = "content-type" -> "Content-Type"
      [] OTHER -> s

HeaderUserAgent == "User-Agent"

HeaderContentType == "Content-Type"

HeaderAuthorization == "Authorization"

DefaultUserAgentValue ==
    "Mozilla/5.0 (compatible; REQUESTS/1.0; +https://github.com/wzshiming/requests)"

MimeURLEncoded == "application/x-www-form-urlencoded; charset=utf-8"

MimeJSON == "application/json; charset=utf-8"

MimeXML == "application/xml; charset=utf-8"

\* mw.FormDataContentType() of the multipart writer toMulti creates
MimeMultipartBoundary == "multipart/form-data; boundary=B"

\* credentials that are not base64 encoded
basicAuthPlain(username, password) == username \o ":" \o password

\* base64.StdEncoding of "u:p"
basicAuth(username, password) ==
    IF username = "u" /\ password = "p" THEN "dTpw" ELSE "Og=="

\* sequencing: F applied to the value of x, x being evaluated once
Bind(x, F(_)) == CHOOSE r \in {F(v) : v \in {x}} : TRUE

\* apply the result r of a paramPairs operation to field f of request q
WithStore(q, f, r) ==
    Bind(r, LAMBDA a : [G |-> a.H, q |-> [q EXCEPT ![f] = a.t]])

SetHeader(G, q, param, value) ==
    WithStore(q, "headerParam",
              AddReplace(G, q.headerParam, CanonicalMIMEHeaderKey(param), value))

AddHeader(G, q, param, value) ==
    WithStore(q, "headerParam",
              Add(G, q.headerParam, CanonicalMIMEHeaderKey(param), value))

AddHeaderIfNot(G, q, param, value) ==
    WithStore(q, "headerParam",
              AddNoRepeat(G, q.headerParam, CanonicalMIMEHeaderKey(param), value))

SetPath(G, q, param, value) ==
    WithStore(q, "pathParam", AddReplace(G, q.pathParam, param, value))

AddPathIfNot(G, q, param, value) ==
    WithStore(q, "pathParam", AddNoRepeat(G, q.pathParam, param, value))

SetQuery(G, q, param, value) ==
    WithStore(q, "queryParam", AddReplace(G, q.queryParam, param, value))

AddQuery(G, q, param, value) ==
    WithStore(q, "queryParam", Add(G, q.queryParam, param, value))

AddQueryIfNot(G, q, param, value) ==
    WithStore(q, "queryParam", AddNoRepeat(G, q.queryParam, param, value))

SetForm(G, q, param, value) ==
    WithStore(q, "formParam", AddReplace(G, q.formParam, param, value))

AddForm(G, q, param, value) ==
    WithStore(q, "formParam", Add(G, q.formParam, param, value))

AddFormIfNot(G, q, param, value) ==
    WithStore(q, "formParam", AddNoRepeat(G, q.formParam, param, value))

SetBasicAuth(G, q, username, password) ==
    SetHeader(G, q, HeaderAuthorization, "Basic " \o basicAuth(username, password))

SetAuthToken(G, q, token) ==
    SetHeader(G, q, HeaderAuthorization, "Bearer " \o token)

SetUserAgent(G, q, ua) == SetHeader(G, q, HeaderUserAgent, ua)

SetContentType(G, q, contentType) == SetHeader(G, q, HeaderContentType, contentType)

SetMethod(G, q, method) == [G |-> G, q |-> [q EXCEPT !.method = method]]

\* a new reader over data, as the caller hands it in; err: its Read fails
NewReader(G, data, err) ==
    [G |-> [G EXCEPT !.readers = Append(@, [data |-> data, pos |-> 0, err |-> err])],
     ptr |-> Len(G.readers) + 1]

\* what is left to read from reader p
Remaining(G, p) ==
    SubSeq(G.readers[p].data, G.readers[p].pos + 1, Len(G.readers[p].data))

\* reading p to EOF
Drain(G, p) == [G EXCEPT !.readers[p].pos = Len(G.readers[p].data)]

\* r.multiFiles = append(r.multiFiles, &multiFile{...})
SetFile(G, q, param, fileName, contentType, reader) ==
    LET f == [Param |-> param, FileName |-> fileName,
              ContentType |-> contentType, Reader |-> reader]
    IN  Bind(SliceAppend([G EXCEPT !.mfiles = Append(@, f)], q.multiFiles,
                         Len(G.mfiles) + 1),
             LAMBDA a : [G |-> a.H, q |-> [q EXCEPT !.multiFiles = a.t]])

SetBody(G, q, body) == [G |-> G, q |-> [q EXCEPT !.body = body]]

\* SetJSON / SetXML: marshal i; on failure only log, otherwise the body is
\* a new reader over the encoding and the content type is added if absent
SetMarshalled(G, q, ok, data, mime) ==
    IF ~ok THEN [G |-> G, q |-> q]
    ELSE Bind(NewReader(G, data, FALSE), LAMBDA b :
             AddHeaderIfNot(b.G, [q EXCEPT !.body = b.ptr], HeaderContentType, mime))

SetJSON(G, q, ok) == SetMarshalled(G, q, ok, <<"json">>, MimeJSON)

SetXML(G, q, ok) == SetMarshalled(G, q, ok, <<"xml">>, MimeXML)

\* r.SetBaseURL(u), u a pointer into urls or 0 (nil)
SetBaseURL(G, q, u) ==
    IF u = 0 THEN [G |-> G, q |-> [q EXCEPT !.baseURL = 0]]
    ELSE IF G.urls[u].User # <<>>
         THEN Bind(SetBasicAuth(G, [q EXCEPT !.baseURL = u],
                                G.urls[u].User[1], G.urls[u].User[2]),
                   LAMBDA a : [G |-> [a.G EXCEPT !.urls[u].User = <<>>], q |-> a.q])
         ELSE [G |-> G, q |-> [q EXCEPT !.baseURL = u]]

\* a path is a sequence of tokens, "/" being the separator: the segments
\* between the separators, in order
RECURSIVE Segments(_)
Segments(path) ==
    IF \A i \in 1..Len(path) : path[i] # "/" THEN <<path>>
    ELSE LET i == CHOOSE x \in 1..Len(path) :
                      path[x] = "/" /\ \A y \in 1..(x - 1) : path[y] # "/"
         IN  <<SubSeq(path, 1, i - 1)>> \o Segments(SubSeq(path, i + 1, Len(path)))

\* path.Clean on segments: empty and "." segments go, ".." takes the
\* segment before it away; with none before it, ".." goes when the path
\* is rooted and stays when it is not.  stack is the result so far.
RECURSIVE Clean(_, _, _)
Clean(rooted, segs, stack) ==
    IF segs = <<>> THEN stack
    ELSE LET e == Head(segs)
         IN  IF e = <<>> \/ e = <<".">> THEN Clean(rooted, Tail(segs), stack)
             ELSE IF e # <<"..">> THEN Clean(rooted, Tail(segs), Append(stack, e))
             ELSE IF stack # <<>> /\ stack[Len(stack)] # <<"..">>
             THEN Clean(rooted, Tail(segs), SubSeq(stack, 1, Len(stack) - 1))
             ELSE IF rooted THEN Clean(rooted, Tail(segs), stack)
             ELSE Clean(rooted, Tail(segs), Append(stack, e))

\* the tokens of a rooted path with the segments segs
RECURSIVE Rooted(_)
Rooted(segs) == IF segs = <<>> THEN <<>> ELSE <<"/">> \o Head(segs) \o Rooted(Tail(segs))

\* resolvePath of net/url on an absolute path: the dot segments are
\* removed, ".." never climbs above the root
resolvePath(path) == IF path = <<>> THEN <<>> ELSE Rooted(Clean(TRUE, Segments(path), <<>>))

\* url.Parse(rawurl) / base.Parse(rawurl) on the inputs RawURLs: the parsed
\* reference, or the resolution of the reference against base
\* (URL.ResolveReference); ok = FALSE is a parse error
ParseRef(rawurl) ==
    CASE rawurl = "http://h/{p}"    -> [ok |-> TRUE, Host |-> "h", User |-> <<>>,
                                        Path |-> <<"/", "{", "p", "}">>, RawQuery |-> <<>>]
      [] rawurl = "/x/{p}?q=v0"     -> [ok |-> TRUE, Host |-> "", User |-> <<>>,
                                        Path |-> <<"/", "x", "/", "{", "p", "}">>,
                                        RawQuery |-> << <<"q", "v0">> >>]
      [] rawurl = "http://u:p@h/y"  -> [ok |-> TRUE, Host |-> "h", User |-> <<"u", "p">>,
                                        Path |-> <<"/", "y">>, RawQuery |-> <<>>]
      [] rawurl = "http://h/../../../x" ->
             [ok |-> TRUE, Host |-> "h", User |-> <<>>,
              Path |-> <<"/", "..", "/", "..", "/", "..", "/", "x">>, RawQuery |-> <<>>]
      [] rawurl = ""                -> [ok |-> TRUE, Host |-> "", User |-> <<>>,
                                        Path |-> <<>>, RawQuery |-> <<>>]
      [] OTHER                      -> [ok |-> FALSE, Host |-> "", User |-> <<>>,
                                        Path |-> <<>>, RawQuery |-> <<>>]

URLOf(ref) ==
    [Host |-> ref.Host, User |-> ref.User, Path |-> ref.Path, RawQuery |-> ref.RawQuery]

ResolveReference(base, ref) ==
    IF ref.Host # "" \/ ref.User # <<>>
    THEN [URLOf(ref) EXCEPT !.Path = resolvePath(@)]
    ELSE IF ref.Path = <<>> /\ ref.RawQuery = <<>>
         THEN [Host |-> base.Host, User |-> base.User,
               Path |-> base.Path, RawQuery |-> base.RawQuery]
         ELSE [Host |-> base.Host, User |-> base.User,
               Path |-> resolvePath(ref.Path), RawQuery |-> ref.RawQuery]

\* r.SetURL(rawurl): a parse error is logged and the base URL becomes nil
SetURL(G, q, rawurl) ==
    LET ref == ParseRef(rawurl)
    IN  IF ~ref.ok THEN SetBaseURL(G, q, 0)
        ELSE LET nu == IF q.baseURL = 0 THEN URLOf(ref)
                       ELSE ResolveReference(G.urls[q.baseURL], ref)
             IN  Bind([G EXCEPT !.urls = Append(@, nu)],
                      LAMBDA G1 : SetBaseURL(G1, q, Len(G1.urls)))

\* the keys of a sequence of <<key, value>> pairs
Keys(kv) == {kv[i][1] : i \in 1..Len(kv)}

\* url.Values.Encode: keys in ascending order, the values of a key in the
\* order they were added
RECURSIVE EncodeValues(_)
EncodeValues(kv) ==
    IF kv = <<>> THEN <<>>
    ELSE LET k == CHOOSE x \in Keys(kv) : \A y \in Keys(kv) : ~StrLess(y, x)
         IN  SelectSeq(kv, LAMBDA e : e[1] = k)
                 \o EncodeValues(SelectSeq(kv, LAMBDA e : e[1] # k))

\* the <<name, value>> pairs of a store, in store order
PairSeq(v) == [i \in 1..Len(v) |-> <<v[i].Param, v[i].Value>>]

\* toQuery(u, p): u.Query(), Add every parameter, u.RawQuery = Encode()
toQuery(G, u, p) ==
    [G EXCEPT !.urls[u].RawQuery = EncodeValues(@ \o PairSeq(p))]

\* positions of token c in a path
Positions(path, c) == {i \in 1..Len(path) : path[i] = c}

\* toPath(u, p): the regular expression \{.*\} is greedy, its only match
\* runs from the first "{" to the last "}"; the text between them is looked
\* up as a parameter name, the first store entry of that name wins
toPath(G, u, p) ==
    LET path == G.urls[u].Path
        lb   == Positions(path, "{")
        rb   == Positions(path, "}")
    IN  IF lb = {} \/ rb = {} THEN G
        ELSE LET i == CHOOSE x \in lb : \A y \in lb : x <= y
                 j == CHOOSE x \in rb : \A y \in rb : y <= x
                 k == SubSeq(path, i + 1, j - 1)
                 m == {n \in 1..Len(p) : k = <<p[n].Param>>}
             IN  IF j < i \/ m = {} THEN G
                 ELSE LET n == CHOOSE x \in m : \A y \in m : x <= y
                      IN  [G EXCEPT !.urls[u].Path =
                              SubSeq(path, 1, i - 1) \o <<p[n].Value>>
                                  \o SubSeq(path, j + 1, Len(path))]

NoBody == [kind |-> "none", fields |-> <<>>, files |-> <<>>, data |-> <<>>]

\* toForm(p): the url-encoded form parameters
toForm(p) == [NoBody EXCEPT !.kind = "form", !.fields = EncodeValues(PairSeq(p))]

\* a toMulti that goes on after a failed io.Copy
toMultiIgnoreErr(G, p, m) ==
    LET fs == [i \in 1..Len(m) |-> G.mfiles[m[i]]]
    IN  [G   |-> [G EXCEPT !.readers =
                    [r \in DOMAIN G.readers |->
                        IF r \in {fs[i].Reader : i \in 1..Len(fs)}
                        THEN [G.readers[r] EXCEPT !.pos = Len(G.readers[r].data)]
                        ELSE G.readers[r]]],
         ok  |-> TRUE,
         body |-> [NoBody EXCEPT
                     !.kind = "multipart",
                     !.fields = PairSeq(p),
                     !.files = [i \in 1..Len(fs) |->
                                  [Param |-> fs[i].Param, FileName |-> fs[i].FileName,
                                   ContentType |-> "application/octet-stream",
                                   data |-> IF G.readers[fs[i].Reader].err THEN <<>>
                                            ELSE Remaining(G, fs[i].Reader)]]]]

\* toMulti(p, m): a field part per form parameter, then a file part per
\* attachment whose reader is copied to EOF; a failing reader aborts.
\* multipart.Writer.CreateFormFile takes the field and file name only.
toMulti(G, p, m) ==
    LET fs   == [i \in 1..Len(m) |-> G.mfiles[m[i]]]
        bad  == {i \in 1..Len(fs) : G.readers[fs[i].Reader].err}
        stop == IF bad = {} THEN Len(fs) + 1
                ELSE CHOOSE x \in bad : \A y \in bad : x <= y
        read == {fs[i].Reader : i \in 1..(stop - 1)}
        G1   == [G EXCEPT !.readers =
                    [r \in DOMAIN G.readers |->
                        IF r \in read
                        THEN [G.readers[r] EXCEPT !.pos = Len(G.readers[r].data)]
                        ELSE G.readers[r]]]
    IN  [G   |-> G1,
         ok  |-> bad = {},
         body |-> [NoBody EXCEPT
                     !.kind = "multipart",
                     !.fields = PairSeq(p),
                     !.files = [i \in 1..Len(fs) |->
                                  [Param |-> fs[i].Param, FileName |-> fs[i].FileName,
                                   ContentType |-> "application/octet-stream",
                                   data |-> Remaining(G, fs[i].Reader)]]]]

\* toHeader(req, p): req.Header.Add for every parameter, in store order
toHeader(p) ==
    [k \in {p[i].Param : i \in 1..Len(p)} |->
        LET e == SelectSeq(p, LAMBDA x : x.Param = k)
        IN  [i \in 1..Len(e) |-> e[i].Value]]

NoWire == [method |-> "-"]

\* the body part of Request.do: a body set by the caller is kept, else the
\* multipart encoding when files are attached, else the form encoding; the
\* derived content type is added if the header is absent
EncodeBody(G, q) ==
    IF q.body # 0
    THEN [G |-> G, q |-> q, ok |-> TRUE,
          body |-> [NoBody EXCEPT !.kind = "raw", !.data = Remaining(G, q.body)]]
    ELSE IF q.multiFiles.len # 0
    THEN Bind(toMulti(G, View(G, q.formParam), Ptrs(G, q.multiFiles)), LAMBDA mu :
             IF ~mu.ok
             THEN [G |-> mu.G, q |-> q, ok |-> FALSE, body |-> NoBody]
             ELSE Bind(AddHeaderIfNot(mu.G, q, HeaderContentType, MimeMultipartBoundary),
                       LAMBDA a : [G |-> a.G, q |-> a.q, ok |-> TRUE, body |-> mu.body]))
    ELSE Bind(AddHeaderIfNot(G, q, HeaderContentType, MimeURLEncoded), LAMBDA a :
             [G |-> a.G, q |-> a.q, ok |-> TRUE, body |-> toForm(View(G, q.formParam))])

\* the wire request http.NewRequest and toHeader build
WireRequest(G, q, body) ==
    [method |-> q.method,
     host   |-> G.urls[q.baseURL].Host,
     path   |-> G.urls[q.baseURL].Path,
     query  |-> G.urls[q.baseURL].RawQuery,
     header |-> toHeader(View(G, q.headerParam)),
     body   |-> body]

\* Request.do up to the call of the transport.  out is "panic" when the
\* base URL is nil (toPath, toQuery and URL.String dereference it), "error"
\* when the body cannot be encoded, else "ready" with the wire request.
do(G, q) ==
    IF q.baseURL = 0 /\ (q.pathParam.len # 0 \/ q.queryParam.len # 0)
    THEN [G |-> G, q |-> q, out |-> "panic", wire |-> NoWire]
    ELSE
    Bind(IF q.pathParam.len # 0
         THEN toPath(G, q.baseURL, View(G, q.pathParam)) ELSE G, LAMBDA G1 :
    Bind(IF q.queryParam.len # 0
         THEN toQuery(G1, q.baseURL, View(G1, q.queryParam)) ELSE G1, LAMBDA G2 :
    Bind(EncodeBody(G2, q), LAMBDA e :
        IF ~e.ok THEN [G |-> e.G, q |-> e.q, out |-> "error", wire |-> NoWire]
        ELSE IF q.baseURL = 0
        THEN [G |-> e.G, q |-> e.q, out |-> "panic", wire |-> NoWire]
        ELSE Bind(AddHeaderIfNot(e.G, e.q, HeaderUserAgent, DefaultUserAgentValue),
                  LAMBDA h : [G |-> h.G, q |-> h.q, out |-> "ready",
                              wire |-> WireRequest(h.G, h.q, e.body)]))))

\* Client.do: the transport either fails before it reads the body, or
\* reads the body to EOF and takes the request
Transport(d, delivered) ==
    IF d.out # "ready" THEN d
    ELSE IF ~delivered THEN [d EXCEPT !.out = "failed"]
    ELSE [d EXCEPT !.out = "ok",
                   !.G = IF d.q.body # 0 THEN Drain(@, d.q.body) ELSE @]

\* r.Clone(): *n = *r, a copy of the struct
Clone(q) == q

\* r.Do(): r.Clone().do()
Do(G, q, delivered) ==
    Bind(do(G, Clone(q)), LAMBDA d : Transport(d, delivered))

\* r.Get(url), r.Post(url), ...: r.Clone().SetMethod(m).SetURL(url).do()
MethodURL(G, q, method, rawurl, delivered) ==
    Bind(SetMethod(G, Clone(q), method), LAMBDA a :
    Bind(SetURL(a.G, a.q, rawurl), LAMBDA b :
    Bind(do(b.G, b.q), LAMBDA d : Transport(d, delivered))))

----------------------------------------------------------------------------
(* A caller configuring a request template r, taking a clone n of it, and  *)
(* sending either of them.                                                 *)

GHeap == [pairs |-> pairs, arrays |-> arrays, urls |-> urls,
          readers |-> readers, mfiles |-> mfiles]

storeOnlyVars == <<st, cloned, res>>

HeaderInputs == {"x-id"}

ReqValues == {"v1", "v2"}

RawURLs == {"http://h/{p}", "/x/{p}?q=v0", "http://u:p@h/y", "", ":"}

Methods == {"GET", "POST"}

ReqTargets == IF rcloned THEN {"r", "n"} ELSE {"r"}

ReqInit ==
    /\ pairs = <<>>
    /\ arrays = <<>>
    /\ st = [s |-> NilSlice, c |-> NilSlice]
    /\ cloned = FALSE
    /\ res = [ptr |-> 0, ok |-> FALSE]
    /\ op = NoOp
    /\ nops = 0
    /\ urls = <<>>
    /\ readers = <<>>
    /\ mfiles = <<>>
    /\ reqs = [r |-> NewRequest, n |-> NewRequest]
    /\ rcloned = FALSE
    /\ sent = <<>>
    /\ out = "none"
    /\ CacheIdle
    /\ AuxIdle

\* the heap after a call
HeapBecomes(G) ==
    /\ pairs' = G.pairs
    /\ arrays' = G.arrays
    /\ urls' = G.urls
    /\ readers' = G.readers
    /\ mfiles' = G.mfiles

\* a setter call on request x with result a
ReqSet(kind, x, param, value, call) ==
    /\ nops < MaxReqOps
    /\ \E a \in {call} :
          /\ HeapBecomes(a.G)
          /\ reqs' = [reqs EXCEPT ![x] = a.q]
    /\ op' = [kind |-> kind, target |-> x, param |-> param, value |-> value]
    /\ nops' = nops + 1
    /\ UNCHANGED <<storeOnlyVars, cacheVars, auxVars, rcloned, sent, out>>

\* a send on request x with result d; the request sent is a clone, so the
\* Request object x itself is not assigned
ReqSent(kind, x, param, call) ==
    /\ nops < MaxReqOps
    /\ \E d \in {call} :
          /\ HeapBecomes(d.G)
          /\ sent' = IF d.out = "ok" THEN Append(sent, d.wire) ELSE sent
          /\ out' = d.out
    /\ op' = [kind |-> kind, target |-> x, param |-> param, value |-> "-"]
    /\ nops' = nops + 1
    /\ UNCHANGED <<storeOnlyVars, cacheVars, auxVars, reqs, rcloned>>

ReqSetURL ==
    \E x \in ReqTargets, u \in RawURLs :
        ReqSet("SetURL", x, u, "-", SetURL(GHeap, reqs[x], u))

ReqSetMethod ==
    \E x \in ReqTargets, m \in Methods :
        ReqSet("SetMethod", x, m, "-", SetMethod(GHeap, reqs[x], m))

ReqSetHeader ==
    \E x \in ReqTargets, k \in HeaderInputs, v \in ReqValues :
        ReqSet("SetHeader", x, k, v, SetHeader(GHeap, reqs[x], k, v))

ReqAddHeader ==
    \E x \in ReqTargets, k \in HeaderInputs, v \in ReqValues :
        ReqSet("AddHeader", x, k, v, AddHeader(GHeap, reqs[x], k, v))

ReqAddHeaderIfNot ==
    \E x \in ReqTargets, k \in HeaderInputs, v \in ReqValues :
        ReqSet("AddHeaderIfNot", x, k, v, AddHeaderIfNot(GHeap, reqs[x], k, v))

ReqSetPath ==
    \E x \in ReqTargets, v \in ReqValues :
        ReqSet("SetPath", x, "p", v, SetPath(GHeap, reqs[x], "p", v))

ReqAddPathIfNot ==
    \E x \in ReqTargets, v \in ReqValues :
        ReqSet("AddPathIfNot", x, "p", v, AddPathIfNot(GHeap, reqs[x], "p", v))

ReqSetQuery ==
    \E x \in ReqTargets, v \in ReqValues :
        ReqSet("SetQuery", x, "q", v, SetQuery(GHeap, reqs[x], "q", v))

ReqAddQuery ==
    \E x \in ReqTargets, v \in ReqValues :
        ReqSet("AddQuery", x, "q", v, AddQuery(GHeap, reqs[x], "q", v))

ReqAddQueryIfNot ==
    \E x \in ReqTargets, v \in ReqValues :
        ReqSet("AddQueryIfNot", x, "q", v, AddQueryIfNot(GHeap, reqs[x], "q", v))

ReqSetForm ==
    \E x \in ReqTargets, v \in ReqValues :
        ReqSet("SetForm", x, "f", v, SetForm(GHeap, reqs[x], "f", v))

ReqAddForm ==
    \E x \in ReqTargets, v \in ReqValues :
        ReqSet("AddForm", x, "f", v, AddForm(GHeap, reqs[x], "f", v))

ReqAddFormIfNot ==
    \E x \in ReqTargets, v \in ReqValues :
        ReqSet("AddFormIfNot", x, "f", v, AddFormIfNot(GHeap, reqs[x], "f", v))

ReqSetFile ==
    \E x \in ReqTargets, err \in BOOLEAN :
        ReqSet("SetFile", x, "upload", "-",
               Bind(NewReader(GHeap, <<"hello">>, err), LAMBDA rd :
                   SetFile(rd.G, reqs[x], "upload", "upload.txt", "text/plain", rd.ptr)))

ReqSetBody ==
    \E x \in ReqTargets :
        ReqSet("SetBody", x, "-", "-",
               Bind(NewReader(GHeap, <<"raw">>, FALSE), LAMBDA rd :
                   SetBody(rd.G, reqs[x], rd.ptr)))

ReqSetJSON ==
    \E x \in ReqTargets, ok \in BOOLEAN :
        ReqSet("SetJSON", x, IF ok THEN "-" ELSE "unsupported", "-",
               SetJSON(GHeap, reqs[x], ok))

ReqSetXML ==
    \E x \in ReqTargets, ok \in BOOLEAN :
        ReqSet("SetXML", x, IF ok THEN "-" ELSE "unsupported", "-",
               SetXML(GHeap, reqs[x], ok))

ReqSetContentType ==
    \E x \in ReqTargets :
        ReqSet("SetContentType", x, HeaderContentType, "text/plain",
               SetContentType(GHeap, reqs[x], "text/plain"))

ReqSetBasicAuth ==
    \E x \in ReqTargets :
        ReqSet("SetBasicAuth", x, HeaderAuthorization, "u:p",
               SetBasicAuth(GHeap, reqs[x], "u", "p"))

ReqSetAuthToken ==
    \E x \in ReqTargets :
        ReqSet("SetAuthToken", x, HeaderAuthorization, "tok",
               SetAuthToken(GHeap, reqs[x], "tok"))

ReqSetUserAgent ==
    \E x \in ReqTargets :
        ReqSet("SetUserAgent", x, HeaderUserAgent, "ua",
               SetUserAgent(GHeap, reqs[x], "ua"))

ReqClone ==
    /\ ~rcloned
    /\ reqs' = [reqs EXCEPT !.n = Clone(reqs.r)]
    /\ rcloned' = TRUE
    /\ op' = [kind |-> "Clone", target |-> "r", param |-> "-", value |-> "-"]
    /\ UNCHANGED <<pairs, arrays, urls, readers, mfiles, storeOnlyVars, cacheVars, auxVars, nops, sent, out>>

ReqDo ==
    \E x \in ReqTargets, delivered \in BOOLEAN :
        ReqSent("Do", x, "-", Do(GHeap, reqs[x], delivered))

ReqMethodURL ==
    \E x \in ReqTargets, m \in Methods, u \in RawURLs, delivered \in BOOLEAN :
        ReqSent(m, x, u, MethodURL(GHeap, reqs[x], m, u, delivered))

ReqNext ==
    \/ ReqSetURL
    \/ ReqSetMethod
    \/ ReqSetHeader
    \/ ReqAddHeader
    \/ ReqAddHeaderIfNot
    \/ ReqSetPath
    \/ ReqAddPathIfNot
    \/ ReqSetQuery
    \/ ReqAddQuery
    \/ ReqAddQueryIfNot
    \/ ReqSetForm
    \/ ReqAddForm
    \/ ReqAddFormIfNot
    \/ ReqSetFile
    \/ ReqSetBody
    \/ ReqSetJSON
    \/ ReqSetXML
    \/ ReqSetContentType
    \/ ReqSetBasicAuth
    \/ ReqSetAuthToken
    \/ ReqSetUserAgent
    \/ ReqClone
    \/ ReqDo
    \/ ReqMethodURL

ReqSpec == ReqInit /\ [][ReqNext]_vars

----------------------------------------------------------------------------
(* Responses: Response.process and the text form a response is cached in.  *)
(* A body is a sequence of bytes.                                          *)

\* mime.ParseMediaType on the Content-Type values the server sends and the
\* <meta> elements declare: the media type, the charset parameter when
\* there is one, and the other parameters as mime.FormatMediaType writes
\* them (they sort after "charset")
ParseMediaType(contentType) ==
    CASE contentType = "text/plain; charset=utf-8" ->
             [ok |-> TRUE, mediatype |-> "text/plain", charset |-> <<"utf-8">>,
              other |-> ""]
      [] contentType = "text/plain; charset=iso-8859-1" ->
             [ok |-> TRUE, mediatype |-> "text/plain", charset |-> <<"iso-8859-1">>,
              other |-> ""]
      [] contentType = "text/plain; charset=x-none" ->
             [ok |-> TRUE, mediatype |-> "text/plain", charset |-> <<"x-none">>,
              other |-> ""]
      [] contentType = "text/plain; format=flowed; charset=iso-8859-1" ->
             [ok |-> TRUE, mediatype |-> "text/plain", charset |-> <<"iso-8859-1">>,
              other |-> "; format=flowed"]
      [] contentType = "application/json" ->
             [ok |-> TRUE, mediatype |-> "application/json", charset |-> <<>>,
              other |-> ""]
      [] contentType = "text/html" ->
             [ok |-> TRUE, mediatype |-> "text/html", charset |-> <<>>, other |-> ""]
      [] contentType = "text/html; charset=iso-8859-1" ->
             [ok |-> TRUE, mediatype |-> "text/html", charset |-> <<"iso-8859-1">>,
              other |-> ""]
      [] contentType = "text/html; charset=x-none" ->
             [ok |-> TRUE, mediatype |-> "text/html", charset |-> <<"x-none">>,
              other |-> ""]
      [] OTHER -> [ok |-> FALSE, mediatype |-> "", charset |-> <<>>, other |-> ""]

\* mime.FormatMediaType(mediatype, params) with params["charset"] = cs
FormatMediaType(mediatype, cs, other) == mediatype \o "; charset=" \o cs \o other

\* charset.Lookup: the encoding a label names, "" when there is none.  The
\* encoding it returns for utf-8 is not the value encoding.Nop.
Lookup(cs) ==
    CASE cs = "utf-8" -> "utf-8"
      [] cs = "iso-8859-1" -> "windows-1252"
      [] OTHER -> ""

\* An HTML body holds bytes and <meta> elements; an element is one token
\* above 255 that stands for its ASCII bytes:
\*   <meta http-equiv="Content-Type" content="text/html; charset=iso-8859-1">
\*   <meta http-equiv="Content-Type" content="text/html; charset=x-none">
\*   <meta charset="iso-8859-1">
MetaHttpEquivLatin1 == 301

MetaHttpEquivUnknown == 302

MetaCharsetLatin1 == 303

\* the UTF-8 encoding of the code point a windows-1252 byte stands for
\* (of the bytes 128..159 only 131, U+0192, occurs)
Windows1252(b) ==
    CASE b < 128 \/ b > 255 -> <<b>>
      [] b = 131 -> <<198, 146>>
      [] OTHER   -> <<192 + (b \div 64), 128 + (b % 64)>>

\* the UTF-8 decoder: well-formed sequences pass, any other byte becomes
\* U+FFFD
RECURSIVE Utf8(_)
Utf8(body) ==
    IF body = <<>> THEN <<>>
    ELSE IF body[1] < 128 \/ body[1] > 255 THEN <<body[1]>> \o Utf8(Tail(body))
    ELSE IF /\ body[1] \in 194..223
            /\ Len(body) >= 2
            /\ body[2] \in 128..191
         THEN <<body[1], body[2]>> \o Utf8(Tail(Tail(body)))
    ELSE <<239, 191, 189>> \o Utf8(Tail(body))

RECURSIVE DecodeAll(_)
DecodeAll(body) ==
    IF body = <<>> THEN <<>> ELSE Windows1252(body[1]) \o DecodeAll(Tail(body))

\* transform.NewReader(r, e.NewDecoder()) read to the end
Decode(e, body) == IF e = "utf-8" THEN Utf8(body) ELSE DecodeAll(body)

\* html.Parse: the children of <head> are the elements before the first
\* byte of text, which opens <body>
HeadOf(body) ==
    LET text == {i \in 1..Len(body) : body[i] < 256}
    IN  IF text = {} THEN body
        ELSE SubSeq(body, 1, (CHOOSE i \in text : \A k \in text : i <= k) - 1)

\* the content attribute of a <meta http-equiv="Content-Type">, "" for an
\* element without one
MetaContent(e) ==
    CASE e = MetaHttpEquivLatin1 -> "text/html; charset=iso-8859-1"
      [] e = MetaHttpEquivUnknown -> "text/html; charset=x-none"
      [] OTHER -> ""

\* a TryHTMLCharset whose reader stays where html.Parse left it
TryHTMLCharsetNoSeek(body) == [r |-> <<>>, n |-> "", err |-> "nil"]

\* TryHTMLCharset: the body is read whole, parsed and rewound; the first
\* <meta http-equiv="Content-Type"> of <head> with a content decides: its
\* charset when it resolves, else no transform and its content as type
TryHTMLCharset(body) ==
    LET metas == SelectSeq(HeadOf(body), LAMBDA e : MetaContent(e) # "")
    IN  IF metas = <<>> THEN [r |-> body, n |-> "", err |-> "nil"]
        ELSE LET contentType == MetaContent(metas[1])
                 mt == ParseMediaType(contentType)
             IN  IF mt.ok /\ mt.charset # <<>> /\ Lookup(mt.charset[1]) # ""
                 THEN [r |-> Decode(Lookup(mt.charset[1]), body),
                       n |-> FormatMediaType(mt.mediatype, "utf-8", mt.other),
                       err |-> "nil"]
                 ELSE [r |-> body, n |-> contentType, err |-> "nil"]

\* TryCharset: the bytes the returned reader yields, the content type
\* and the error
TryCharset(body, contentType) ==
    LET mt == ParseMediaType(contentType)
    IN  IF mt.ok /\ mt.charset # <<>>
        THEN IF Lookup(mt.charset[1]) # ""
             THEN [r |-> Decode(Lookup(mt.charset[1]), body),
                   contentType |-> FormatMediaType(mt.mediatype, "uft-8", mt.other),
                   err |-> "nil"]
             ELSE [r |-> body, contentType |-> contentType, err |-> "nil"]
        ELSE IF mt.ok /\ mt.mediatype = "text/html"
        THEN LET h == TryHTMLCharset(body)
             IN  [r |-> h.r, contentType |-> IF h.n = "" THEN contentType ELSE h.n,
                  err |-> h.err]
        ELSE [r |-> body, contentType |-> contentType, err |-> "nil"]

\* an http.Response as the transport or http.ReadResponse delivers it
RawResponses ==
    { [StatusCode |-> c, ContentType |-> t[1], Body |-> t[2],
       ContentLength |-> IF tr = "length" THEN Len(t[2]) ELSE 0 - 1,
       Chunked |-> tr = "chunked"] :
        c \in {200, 404}, tr \in {"length", "chunked", "close"},
        t \in { <<"text/plain; charset=utf-8", <<65>>>>,
                <<"text/plain; charset=utf-8", <<65, 195, 169>>>>,
                <<"text/plain; charset=iso-8859-1", <<65>>>>,
                <<"text/plain; charset=iso-8859-1", <<65, 233>>>>,
                <<"text/plain; charset=x-none", <<233>>>>,
                <<"application/json", <<65, 233>>>>,
                <<"text/html", <<65>>>>,
                <<"", <<233>>>> } }

\* Response.process: r.body is the body read through TryCharset, the raw
\* response keeps its header and ContentLength and loses its Body
process(raw) ==
    [StatusCode |-> raw.StatusCode, ContentType |-> raw.ContentType,
     ContentLength |-> raw.ContentLength, Chunked |-> raw.Chunked,
     body |-> TryCharset(raw.Body, raw.ContentType).r]

\* newResponse(resp)
newResponse(raw) == process(raw)

\* MarshalResponse(r.RawResponse()): httputil.DumpResponse of the raw
\* response with r.body as its Body.  A known ContentLength that is not the
\* length of the body is an error; an unknown ContentLength without
\* chunking, or a ContentLength of 0 with a non-empty body, is written as
\* a body delimited by the end of the text.
MarshalText(r) ==
    IF r.Chunked
    THEN [ok |-> TRUE,
          text |-> [StatusCode |-> r.StatusCode, ContentType |-> r.ContentType,
                    Framing |-> "chunked", Length |-> 0 - 1, Payload |-> r.body]]
    ELSE IF r.ContentLength = 0 - 1 \/ (r.ContentLength = 0 /\ r.body # <<>>)
    THEN [ok |-> TRUE,
          text |-> [StatusCode |-> r.StatusCode, ContentType |-> r.ContentType,
                    Framing |-> "close", Length |-> 0 - 1, Payload |-> r.body]]
    ELSE IF r.ContentLength # Len(r.body)
    THEN [ok |-> FALSE, text |-> <<>>]
    ELSE [ok |-> TRUE,
          text |-> [StatusCode |-> r.StatusCode, ContentType |-> r.ContentType,
                    Framing |-> "length", Length |-> r.ContentLength,
                    Payload |-> r.body]]

\* a file that os.OpenFile has created or truncated and nothing has written
EmptyText ==
    [StatusCode |-> 0, ContentType |-> "", Framing |-> "empty", Length |-> 0,
     Payload |-> <<>>]

\* the bytes of a file holding old after a Write of new at offset 0: the
\* bytes of old past the end of new stay.  The two texts have the same
\* status line and header, so their bodies start at the same offset.
Overwrite(old, new) ==
    [new EXCEPT !.Payload = @ \o SubSeq(old.Payload, Len(@) + 1, Len(old.Payload))]

\* UnmarshalResponse: http.ReadResponse of a dumped response
UnmarshalResponse(text) ==
    [StatusCode |-> text.StatusCode, ContentType |-> text.ContentType,
     ContentLength |-> text.Length, Chunked |-> text.Framing = "chunked",
     Body |-> IF text.Framing = "length"
              THEN SubSeq(text.Payload, 1, Min(text.Length, Len(text.Payload)))
              ELSE text.Payload]

\* Response.UnarshalText: the parsed response is processed like a fresh one
UnarshalText(text) == process(UnmarshalResponse(text))

----------------------------------------------------------------------------
(* The caches.  A memoryCacheDir method has a value receiver: it runs on   *)
(* f, a copy of the struct it is called on, sync.Map included.             *)

\* sync.Map.Store, Load and Delete
MapStore(m, name, v) == [m EXCEPT ![name] = <<v>>]

MapLoad(m, name) == m[name]

MapDelete(m, name) == [m EXCEPT ![name] = <<>>]

\* memoryCacheDir.Save on cache value c: the entry is stored in the copy f
memSave(c, name, resp) ==
    LET f == c
    IN  [c |-> c, f |-> MapStore(f, name, resp), err |-> "nil"]

\* a Load that does not look at the ok result of sync.Map.Load
memLoadUnchecked(c, name) == [err |-> "nil", resp |-> MapLoad(c, name)]

\* memoryCacheDir.Load on cache value c
memLoad(c, name) ==
    LET f == c
        d == MapLoad(f, name)
    IN  IF d = <<>> THEN [err |-> "not exist", resp |-> <<>>]
        ELSE [err |-> "nil", resp |-> d]

\* memoryCacheDir.Del on cache value c
memDel(c, name) ==
    LET f == c
    IN  [c |-> c, f |-> MapDelete(f, name), err |-> "nil"]

\* fileCacheDir.Save: nothing is written when the response cannot be
\* dumped; the directory and the file are taken to be writable
fileSave(d, name, resp) ==
    LET data == MarshalText(resp)
    IN  IF ~data.ok THEN [d |-> d, err |-> "error"]
        ELSE [d |-> [d EXCEPT ![name] = <<data.text>>], err |-> "nil"]

\* fileCacheDir.Load: a file that cannot be read is ErrNotExist, a file
\* without a status line is the error of http.ReadResponse
fileLoad(d, name) ==
    IF d[name] = <<>> THEN [err |-> "not exist", resp |-> <<>>]
    ELSE IF d[name] = <<EmptyText>> THEN [err |-> "unexpected EOF", resp |-> <<>>]
    ELSE [err |-> "nil", resp |-> <<UnarshalText(d[name][1])>>]

\* a Del that reports a missing file
fileDelStrict(d, name) ==
    [d |-> [d EXCEPT ![name] = <<>>],
     err |-> IF d[name] = <<>> THEN "error" ELSE "nil"]

\* fileCacheDir.Del
fileDel(d, name) == [d |-> [d EXCEPT ![name] = <<>>], err |-> "nil"]

\* the call before this one and the error it returned
Before == <<op.kind, op.target, op.param, got.err>>

\* a cache call: kind on backend target with name
CacheCall(kind, target, name) ==
    /\ nops < MaxCacheOps
    /\ op' = [kind |-> kind, target |-> target, param |-> name, value |-> "-",
              after |-> Before]
    /\ nops' = nops + 1
    /\ UNCHANGED <<pairs, arrays, storeOnlyVars, requestVars, auxVars>>

\* the client receives a response and processes it
CacheReceive ==
    \E raw \in RawResponses :
        /\ nops < MaxCacheOps
        /\ cur' = <<newResponse(raw)>>
        /\ op' = [kind |-> "Receive", target |-> "-", param |-> "-", value |-> "-",
                  after |-> Before]
        /\ nops' = nops + 1
        /\ UNCHANGED <<pairs, arrays, storeOnlyVars, requestVars, auxVars, mem, disk, got>>

MemSave ==
    \E name \in CacheKeys :
        /\ cur # <<>>
        /\ CacheCall("Save", "memory", name)
        /\ \E a \in {memSave(mem, name, cur[1])} :
              /\ mem' = a.c
              /\ got' = [err |-> a.err, resp |-> <<>>]
        /\ UNCHANGED <<disk, cur>>

MemLoad ==
    \E name \in CacheKeys :
        /\ CacheCall("Load", "memory", name)
        /\ got' = memLoad(mem, name)
        /\ UNCHANGED <<mem, disk, cur>>

MemDel ==
    \E name \in CacheKeys :
        /\ CacheCall("Del", "memory", name)
        /\ \E a \in {memDel(mem, name)} :
              /\ mem' = a.c
              /\ got' = [err |-> a.err, resp |-> <<>>]
        /\ UNCHANGED <<disk, cur>>

FileSave ==
    \E name \in CacheKeys :
        /\ cur # <<>>
        /\ CacheCall("Save", "file", name)
        /\ \E a \in {fileSave(disk, name, cur[1])} :
              /\ disk' = a.d
              /\ got' = [err |-> a.err, resp |-> <<>>]
        /\ UNCHANGED <<mem, cur>>

FileLoad ==
    \E name \in CacheKeys :
        /\ CacheCall("Load", "file", name)
        /\ got' = fileLoad(disk, name)
        /\ UNCHANGED <<mem, disk, cur>>

FileDel ==
    \E name \in CacheKeys :
        /\ CacheCall("Del", "file", name)
        /\ \E a \in {fileDel(disk, name)} :
              /\ disk' = a.d
              /\ got' = [err |-> a.err, resp |-> <<>>]
        /\ UNCHANGED <<mem, cur>>

CacheInit ==
    /\ pairs = <<>>
    /\ arrays = <<>>
    /\ st = [s |-> NilSlice, c |-> NilSlice]
    /\ cloned = FALSE
    /\ res = [ptr |-> 0, ok |-> FALSE]
    /\ op = NoOp
    /\ nops = 0
    /\ RequestIdle
    /\ CacheIdle
    /\ AuxIdle

CacheNext ==
    \/ CacheReceive
    \/ MemSave
    \/ MemLoad
    \/ MemDel
    \/ FileSave
    \/ FileLoad
    \/ FileDel

CacheSpec == CacheInit /\ [][CacheNext]_vars

----------------------------------------------------------------------------
(* Concurrent callers of one cache.  Each goroutine makes one call at a    *)
(* time; a call of the file cache is the sequence of system calls of       *)
(* ioutil.WriteFile, ioutil.ReadFile and os.Remove, a call of the memory   *)
(* cache is the copy of its receiver followed by the sync.Map operation.   *)

MaxRaceCalls == 3

Goroutines == {1, 2}

\* the responses the callers save: bodies delimited by the end of the
\* connection, with the same status line and header
RaceResponses ==
    { newResponse([StatusCode |-> 200, ContentType |-> "text/plain; charset=utf-8",
                   Body |-> b, ContentLength |-> 0 - 1, Chunked |-> FALSE]) :
        b \in {<<66>>, <<65, 195, 169>>} }

\* a goroutine that has made no call
IdleThread ==
    [pc |-> "idle", kind |-> "-", target |-> "-", name |-> "-", resp |-> <<>>,
     f |-> [k \in CacheKeys |-> <<>>], data |-> <<>>, fd |-> "none",
     ret |-> NoResult]

\* goroutine t starts a call and binds its arguments
RaceCall(t, kind, target, name, resp) ==
    /\ thr[t].pc \in {"idle", "done"}
    /\ nops < MaxRaceCalls
    /\ nops' = nops + 1
    /\ op' = op
    /\ bench' = IF kind = "Save" THEN bench \cup {<<target, name, resp[1]>>}
                ELSE bench
    /\ thr' = [thr EXCEPT ![t] =
                  [IdleThread EXCEPT !.pc = target, !.kind = kind,
                                     !.target = target, !.name = name,
                                     !.resp = resp,
                                     !.f = IF target = "memory" THEN mem ELSE @]]

\* goroutine t returns from its call
RaceReturn(t, ret) ==
    thr' = [thr EXCEPT ![t].pc = "done", ![t].ret = ret, ![t].fd = "none"]

raceFrame == <<pairs, arrays, storeOnlyVars, requestVars, cur, got>>

\* a method of memoryCacheDir is called: the receiver is copied into f
RaceMemCall ==
    \E t \in Goroutines, kind \in {"Save", "Load", "Del"}, name \in CacheKeys,
       r \in RaceResponses :
        /\ kind # "Save" => r = CHOOSE x \in RaceResponses : TRUE
        /\ RaceCall(t, kind, "memory", name, IF kind = "Save" THEN <<r>> ELSE <<>>)
        /\ UNCHANGED <<raceFrame, mem, disk>>

\* the sync.Map operation of the call, on the copy
RaceMemStep ==
    \E t \in Goroutines :
        /\ thr[t].pc = "memory"
        /\ \E a \in { IF thr[t].kind = "Save"
                       THEN memSave(thr[t].f, thr[t].name, thr[t].resp[1])
                       ELSE IF thr[t].kind = "Del"
                       THEN memDel(thr[t].f, thr[t].name)
                       ELSE [f |-> thr[t].f] @@ memLoad(thr[t].f, thr[t].name) } :
              thr' = [thr EXCEPT ![t].pc = "done", ![t].f = a.f,
                                 ![t].ret = [err |-> a.err,
                                             resp |-> IF thr[t].kind = "Load"
                                                      THEN a.resp ELSE <<>>]]
        /\ UNCHANGED <<raceFrame, mem, disk, nops, op, bench>>

\* a method of fileCacheDir is called; Save dumps the response first
RaceFileCall ==
    \E t \in Goroutines, kind \in {"Save", "Load", "Del"}, name \in CacheKeys,
       r \in RaceResponses :
        /\ kind # "Save" => r = CHOOSE x \in RaceResponses : TRUE
        /\ RaceCall(t, kind, "file", name, IF kind = "Save" THEN <<r>> ELSE <<>>)
        /\ UNCHANGED <<raceFrame, mem, disk>>

\* fileCacheDir.Save, ioutil.WriteFile: os.OpenFile with O_CREATE|O_TRUNC
RaceFileOpen ==
    \E t \in Goroutines :
        /\ thr[t].pc = "file" /\ thr[t].kind = "Save"
        /\ \E data \in {MarshalText(thr[t].resp[1])} :
              IF ~data.ok
              THEN RaceReturn(t, [err |-> "error", resp |-> <<>>]) /\ disk' = disk
              ELSE /\ thr' = [thr EXCEPT ![t].pc = "opened", ![t].fd = "open",
                                         ![t].data = <<data.text>>]
                   /\ disk' = [disk EXCEPT ![thr[t].name] = <<EmptyText>>]
        /\ UNCHANGED <<raceFrame, mem, nops, op, bench>>

\* fileCacheDir.Save, ioutil.WriteFile: f.Write(data) and f.Close.  The
\* bytes go to the file the descriptor is open on, which has no name any
\* more when it was removed in between.
RaceFileWrite ==
    \E t \in Goroutines :
        /\ thr[t].pc = "opened"
        /\ disk' = IF thr[t].fd = "unlinked" THEN disk
                   ELSE [disk EXCEPT ![thr[t].name] =
                            <<Overwrite(@[1], thr[t].data[1])>>]
        /\ RaceReturn(t, [err |-> "nil", resp |-> <<>>])
        /\ UNCHANGED <<raceFrame, mem, nops, op, bench>>

\* fileCacheDir.Load: ioutil.ReadFile and UnarshalText
RaceFileLoad ==
    \E t \in Goroutines :
        /\ thr[t].pc = "file" /\ thr[t].kind = "Load"
        /\ RaceReturn(t, fileLoad(disk, thr[t].name))
        /\ UNCHANGED <<raceFrame, mem, disk, nops, op, bench>>

\* fileCacheDir.Del: os.Remove; descriptors open on the file keep it
RaceFileDel ==
    \E t \in Goroutines :
        /\ thr[t].pc = "file" /\ thr[t].kind = "Del"
        /\ \E a \in {fileDel(disk, thr[t].name)} :
              /\ disk' = a.d
              /\ thr' = [u \in Goroutines |->
                          IF u = t
                          THEN [thr[t] EXCEPT !.pc = "done",
                                              !.ret = [err |-> a.err, resp |-> <<>>]]
                          ELSE IF thr[u].fd = "open" /\ thr[u].name = thr[t].name
                          THEN [thr[u] EXCEPT !.fd = "unlinked"]
                          ELSE thr[u]]
        /\ UNCHANGED <<raceFrame, mem, nops, op, bench>>

RaceInit ==
    /\ pairs = <<>>
    /\ arrays = <<>>
    /\ st = [s |-> NilSlice, c |-> NilSlice]
    /\ cloned = FALSE
    /\ res = [ptr |-> 0, ok |-> FALSE]
    /\ op = NoOp
    /\ nops = 0
    /\ RequestIdle
    /\ CacheIdle
    /\ thr = [t \in Goroutines |-> IdleThread]
    /\ bench = {}

RaceNext ==
    \/ RaceMemCall
    \/ RaceMemStep
    \/ RaceFileCall
    \/ RaceFileOpen
    \/ RaceFileWrite
    \/ RaceFileLoad
    \/ RaceFileDel

RaceSpec == RaceInit /\ [][RaceNext]_vars

----------------------------------------------------------------------------
(* Cache keys.  Both Hash methods hash the request r.RawRequest() builds.  *)

MaxHashes == 2

\* r.RawRequest(): the http.Request of r, built as Request.do builds the
\* request it sends
RawRequest(G, q) == do(G, Clone(q))

\* httputil.DumpRequest(req, body): the request line, the Host line and the
\* header lines in key order; the body only when asked for.  A header
\* is a function of its keys, which holds no order.
DumpRequest(req, body) ==
    [line |-> <<req.method, req.path, req.query>>, host |-> req.host,
     header |-> req.header, body |-> IF body THEN <<req.body>> ELSE <<>>]

\* a hash over the dump with the body
RequestHashBody(req) == <<"md5", DumpRequest(req, TRUE)>>

\* RequestHash: the hex digest of md5 over DumpRequest(r, false)
RequestHash(req) == <<"md5", DumpRequest(req, FALSE)>>

\* memoryCacheDir.Hash
memHash(G, q) ==
    Bind(RawRequest(G, q), LAMBDA raw :
        IF raw.out # "ready" THEN [G |-> raw.G, err |-> raw.out, key |-> <<>>, req |-> NoWire]
        ELSE [G |-> raw.G, err |-> "nil", key |-> RequestHash(raw.wire), req |-> raw.wire])

\* path.Join(elem...): the elements that are not empty, joined by "/" and
\* cleaned; the result is rooted when the first of them starts with "/"
pathJoin(elems) ==
    LET ne == SelectSeq(elems, LAMBDA e : e # <<>>)
        RECURSIVE All(_)
        All(es) == IF es = <<>> THEN <<>> ELSE Segments(Head(es)) \o All(Tail(es))
        rooted == ne # <<>> /\ Head(ne)[1] = "/"
    IN  [rooted |-> rooted, segs |-> Clean(rooted, All(ne), <<>>)]

\* fileCacheDir.Hash: path.Join(Scheme, Host, Path, h).  The digest h is
\* one segment and no dot segment, so it ends the cleaned path.
fileHash(G, q) ==
    Bind(RawRequest(G, q), LAMBDA raw :
        IF raw.out # "ready" THEN [G |-> raw.G, err |-> raw.out, key |-> <<>>, req |-> NoWire]
        ELSE [G |-> raw.G, err |-> "nil", req |-> raw.wire,
              key |-> [dir |-> pathJoin(<<IF raw.wire.host = "" THEN <<>> ELSE <<"http">>,
                                          IF raw.wire.host = "" THEN <<>>
                                          ELSE <<raw.wire.host>>,
                                          raw.wire.path>>),
                       h |-> RequestHash(raw.wire)]])

\* the directory of the file cache, as given to FileCacheDir
CacheRoot == <<"cache">>

\* path.Join(string(f), name) of Load and Del, filepath.Join of Save: the
\* segments of the file Load, Save and Del work on, the digest apart
filePath(f, name) == pathJoin(<<f, Rooted(name.dir.segs)>>).segs

\* a Hash call on request x with result a; bench is the list of the calls
ReqHash(backend, x, call) ==
    /\ Len(bench) < MaxHashes
    /\ \E a \in {call} :
          /\ HeapBecomes(a.G)
          /\ bench' = Append(bench, [backend |-> backend, err |-> a.err,
                                     key |-> a.key, req |-> a.req])
    /\ op' = [kind |-> "Hash", target |-> x, param |-> backend, value |-> "-"]
    /\ UNCHANGED <<storeOnlyVars, cacheVars, thr, nops, reqs, rcloned, sent, out>>

ReqHashMem == \E x \in ReqTargets : ReqHash("memory", x, memHash(GHeap, reqs[x]))

ReqHashFile == \E x \in ReqTargets : ReqHash("file", x, fileHash(GHeap, reqs[x]))

\* SetURL with a URL whose path climbs by ".." segments
ReqSetURLDots ==
    \E x \in ReqTargets :
        ReqSet("SetURL", x, "http://h/../../../x", "-",
               SetURL(GHeap, reqs[x], "http://h/../../../x"))

HashNext ==
    \/ ReqSetURL
    \/ ReqSetURLDots
    \/ ReqSetMethod
    \/ ReqSetHeader
    \/ ReqSetForm
    \/ ReqSetBody
    \/ ReqHashMem
    \/ ReqHashFile

HashSpec == ReqInit /\ [][HashNext]_vars

----------------------------------------------------------------------------
(* toPath of util.go on a path string.  A path is a sequence of tokens:    *)
(* "{" and "}" are the braces, a name is one token.                        *)

MaxPieces == 4

\* transform.String(tr, val) as toPath uses it: no transformer, or one that
\* rewrites "e-acute", fails on "snowman" (the value is then kept) and
\* keeps every other value
TransformString(tr, val) ==
    IF tr = "nil" THEN val
    ELSE IF val = "e-acute" THEN "E9"
    ELSE val

\* a toPath whose expression matches from the first "{" to the last "}"
toPathGreedy(path, p, tr) ==
    LET lb == Positions(path, "{")
        rb == Positions(path, "}")
    IN  IF lb = {} \/ rb = {} THEN path
        ELSE LET i == CHOOSE x \in lb : \A y \in lb : x <= y
                 j == CHOOSE x \in rb : \A y \in rb : y <= x
                 m == {n \in 1..Len(p) : SubSeq(path, i + 1, j - 1) = <<p[n].Param>>}
             IN  IF j < i \/ m = {} THEN path
                 ELSE SubSeq(path, 1, i - 1)
                          \o <<TransformString(tr, p[CHOOSE x \in m : \A y \in m : x <= y].Value)>>
                          \o SubSeq(path, j + 1, Len(path))

\* toPath(path, p, tr): ReplaceAllStringFunc over the matches of \{[^}]*\},
\* leftmost first and not overlapping; a match runs from a "{" to the next
\* "}"; the text between them is looked up in p, first entry first, and a
\* match without entry is returned as it is
RECURSIVE toPathString(_, _, _)
toPathString(path, p, tr) ==
    LET lb == Positions(path, "{")
    IN  IF lb = {} THEN path
        ELSE LET i  == CHOOSE x \in lb : \A y \in lb : x <= y
                 rb == {x \in Positions(path, "}") : x > i}
             IN  IF rb = {} THEN path
                 ELSE LET j == CHOOSE x \in rb : \A y \in rb : x <= y
                          m == {n \in 1..Len(p) :
                                   SubSeq(path, i + 1, j - 1) = <<p[n].Param>>}
                      IN  SubSeq(path, 1, i - 1)
                              \o (IF m = {} THEN SubSeq(path, i, j)
                                  ELSE <<TransformString(tr,
                                           p[CHOOSE x \in m : \A y \in m : x <= y].Value)>>)
                              \o toPathString(SubSeq(path, j + 1, Len(path)), p, tr)

\* the pieces path templates are put together from
Pieces ==
    { <<"/", "a">>, <<"/", "b">>, <<"/">>, <<"{">>, <<"}">>, <<"id">>,
      <<"{", "id", "}">>, <<"{", "missing", "}">> }

RECURSIVE Templates(_)
Templates(n) ==
    IF n = 0 THEN {<<>>}
    ELSE Templates(n - 1) \cup {t \o x : t \in Templates(n - 1), x \in Pieces}

\* path parameter stores, as Add and AddReplace leave them
PathStores ==
    { <<>>,
      <<[Param |-> "id", Value |-> "42"]>>,
      <<[Param |-> "id", Value |-> "e-acute"], [Param |-> "id", Value |-> "42"]>>,
      <<[Param |-> "x", Value |-> "snowman"], [Param |-> "id", Value |-> "snowman"]>> }

\* one call of toPath; bench is the call and its result
PathCall ==
    /\ nops = 0
    /\ nops' = 1
    /\ \E path \in Templates(MaxPieces), p \in PathStores, tr \in {"nil", "enc"} :
        /\ bench' = [path |-> path, p |-> p, tr |-> tr,
                     result |-> toPathString(path, p, tr)]
        /\ UNCHANGED <<pairs, arrays, storeOnlyVars, op, requestVars, cacheVars, thr>>

PathInit ==
    /\ pairs = <<>>
    /\ arrays = <<>>
    /\ st = [s |-> NilSlice, c |-> NilSlice]
    /\ cloned = FALSE
    /\ res = [ptr |-> 0, ok |-> FALSE]
    /\ op = NoOp
    /\ nops = 0
    /\ RequestIdle
    /\ CacheIdle
    /\ thr = <<>>
    /\ bench = [path |-> <<>>, p |-> <<>>, tr |-> "nil", result |-> <<>>]

PathNext == PathCall

PathSpec == PathInit /\ [][PathNext]_vars

----------------------------------------------------------------------------
(* TestParam: a request is given a base URL, a path, a query and a form    *)
(* parameter and credentials, each once and in any order, and is posted to *)
(* a template.  bench is the set of the calls made so far.                 *)

ParamBases == {"http://h/{p}", "http://u:p@h/y"}

ParamTemplates == {"/x/{p}?q=v0", "http://h/{p}"}

\* the setter kind on request r with result a, not called before
ParamSet(kind, call) ==
    /\ kind \notin bench
    /\ "Post" \notin bench
    /\ \E a \in {call} :
          /\ HeapBecomes(a.G)
          /\ reqs' = [reqs EXCEPT !.r = a.q]
    /\ bench' = bench \cup {kind}
    /\ op' = [kind |-> kind, target |-> "r", param |-> "-", value |-> "-"]
    /\ nops' = nops + 1
    /\ UNCHANGED <<storeOnlyVars, cacheVars, thr, rcloned, sent, out>>

ParamSetURL ==
    \E u \in ParamBases : ParamSet("SetURL", SetURL(GHeap, reqs.r, u))

ParamSetPath ==
    \E v \in ReqValues : ParamSet("SetPath", SetPath(GHeap, reqs.r, "p", v))

ParamSetQuery ==
    \E v \in ReqValues : ParamSet("SetQuery", SetQuery(GHeap, reqs.r, "q", v))

ParamSetForm ==
    \E v \in ReqValues : ParamSet("SetForm", SetForm(GHeap, reqs.r, "f", v))

ParamSetBasicAuth ==
    ParamSet("SetBasicAuth", SetBasicAuth(GHeap, reqs.r, "u", "p"))

\* r.Post(template)
ParamPost ==
    /\ "Post" \notin bench
    /\ \E u \in ParamTemplates, delivered \in BOOLEAN :
          /\ \E d \in {MethodURL(GHeap, reqs.r, "POST", u, delivered)} :
                /\ HeapBecomes(d.G)
                /\ sent' = IF d.out = "ok" THEN Append(sent, d.wire) ELSE sent
                /\ out' = d.out
          /\ op' = [kind |-> "POST", target |-> "r", param |-> u, value |-> "-"]
    /\ bench' = bench \cup {"Post"}
    /\ nops' = nops + 1
    /\ UNCHANGED <<storeOnlyVars, cacheVars, thr, reqs, rcloned>>

ParamInit ==
    /\ pairs = <<>>
    /\ arrays = <<>>
    /\ st = [s |-> NilSlice, c |-> NilSlice]
    /\ cloned = FALSE
    /\ res = [ptr |-> 0, ok |-> FALSE]
    /\ op = NoOp
    /\ nops = 0
    /\ RequestIdle
    /\ CacheIdle
    /\ thr = <<>>
    /\ bench = {}

ParamNext ==
    \/ ParamSetURL
    \/ ParamSetPath
    \/ ParamSetQuery
    \/ ParamSetForm
    \/ ParamSetBasicAuth
    \/ ParamPost

ParamSpec == ParamInit /\ [][ParamNext]_vars

----------------------------------------------------------------------------
(* Charset detection: one call of TryCharset or of TryHTMLCharset on a     *)
(* body; bench is the call and what it returned.                           *)

MaxBodyLen == 3

ContentTypes ==
    {"text/plain; charset=utf-8", "text/plain; charset=iso-8859-1",
     "text/plain; charset=x-none", "text/plain; format=flowed; charset=iso-8859-1",
     "application/json", "text/html", "text/html; charset=iso-8859-1",
     "text/html; charset=x-none", "", "text/html; charset"}

BodyTokens == {65, 233, MetaHttpEquivLatin1, MetaHttpEquivUnknown, MetaCharsetLatin1}

RECURSIVE Bodies(_)
Bodies(n) ==
    IF n = 0 THEN {<<>>}
    ELSE Bodies(n - 1) \cup {Append(b, t) : b \in Bodies(n - 1), t \in BodyTokens}

CharsetCall ==
    /\ nops = 0
    /\ nops' = 1
    /\ \E body \in Bodies(MaxBodyLen), contentType \in ContentTypes :
          \E a \in {TryCharset(body, contentType)} :
              bench' = [fn |-> "TryCharset", body |-> body, contentType |-> contentType,
                        r |-> a.r, n |-> a.contentType, err |-> a.err]
    /\ UNCHANGED <<pairs, arrays, storeOnlyVars, op, requestVars, cacheVars, thr>>

HTMLCharsetCall ==
    /\ nops = 0
    /\ nops' = 1
    /\ \E body \in Bodies(MaxBodyLen) :
          \E a \in {TryHTMLCharset(body)} :
              bench' = [fn |-> "TryHTMLCharset", body |-> body, contentType |-> "",
                        r |-> a.r, n |-> a.n, err |-> a.err]
    /\ UNCHANGED <<pairs, arrays, storeOnlyVars, op, requestVars, cacheVars, thr>>

CharsetInit ==
    /\ pairs = <<>>
    /\ arrays = <<>>
    /\ st = [s |-> NilSlice, c |-> NilSlice]
    /\ cloned = FALSE
    /\ res = [ptr |-> 0, ok |-> FALSE]
    /\ op = NoOp
    /\ nops = 0
    /\ RequestIdle
    /\ CacheIdle
    /\ thr = <<>>
    /\ bench = [fn |-> "-", body |-> <<>>, contentType |-> "", r |-> <<>>,
                n |-> "", err |-> "-"]

CharsetNext ==
    \/ CharsetCall
    \/ HTMLCharsetCall

CharsetSpec == CharsetInit /\ [][CharsetNext]_vars

----------------------------------------------------------------------------
(* A send under a context.  bench is the send: the context of the request, *)
(* where the send stands, the response body the server sends, the bytes    *)
(* read of it, and what the send returned.  The body is read either by     *)
(* Client.do, which checks the error of ioutil.ReadAll, or by              *)
(* Response.process under newResponse, which drops it.                     *)

MaxSendBody == 3

SendBodies == {b \in {<<65>>, <<65, 233>>, <<65, 195, 169>>} : Len(b) <= MaxSendBody}

NoSend ==
    [ctx |-> "none", deadline |-> FALSE, pc |-> "new", reader |-> "-",
     resp |-> <<>>, read |-> 0, ret |-> "-", body |-> <<>>]

\* r.ctx.Err() # nil
isCancelled(b) == b.ctx \in {"canceled", "deadline exceeded"}

ctxFrame == <<pairs, arrays, storeOnlyVars, op, nops, requestVars, cacheVars, thr>>

\* the send returns
SendReturns(ret, body) ==
    bench' = [bench EXCEPT !.pc = "returned", !.ret = ret, !.body = body]

\* r.SetContext(ctx) with a context the caller can cancel
CtxSetContext ==
    /\ bench.pc = "new" /\ bench.ctx = "none"
    /\ bench' = [bench EXCEPT !.ctx = "live"]
    /\ UNCHANGED ctxFrame

\* r.SetTimeout(d) / r.SetDeadline(t): context.WithDeadline over r.ctx,
\* over context.TODO() when there is none
CtxSetDeadline ==
    /\ bench.pc = "new" /\ ~bench.deadline
    /\ bench' = [bench EXCEPT !.deadline = TRUE,
                              !.ctx = IF @ = "none" THEN "live" ELSE @]
    /\ UNCHANGED ctxFrame

\* the caller cancels the context before the send has returned
CtxCancel ==
    /\ bench.ctx = "live" /\ bench.pc # "returned"
    /\ bench' = [bench EXCEPT !.ctx = "canceled"]
    /\ UNCHANGED ctxFrame

\* the deadline passes before the send has returned
CtxExpire ==
    /\ bench.ctx = "live" /\ bench.deadline /\ bench.pc # "returned"
    /\ bench' = [bench EXCEPT !.ctx = "deadline exceeded"]
    /\ UNCHANGED ctxFrame

\* Request.do: withContext and c.cli.Do(req.rawRequest); a context that is
\* done makes http.Client.Do return its error
CtxDispatch ==
    /\ bench.pc = "new"
    /\ IF isCancelled(bench) THEN SendReturns("error", <<>>)
       ELSE bench' = [bench EXCEPT !.pc = "flight"]
    /\ UNCHANGED ctxFrame

\* the transport returns: the error of the context, an error of its own,
\* or the response, whose body is still to be read
CtxRespond ==
    /\ bench.pc = "flight"
    /\ IF isCancelled(bench) THEN SendReturns("error", <<>>)
       ELSE \/ SendReturns("error", <<>>)
            \/ \E b \in SendBodies, reader \in {"Client.do", "process"} :
                  bench' = [bench EXCEPT !.pc = "reading", !.resp = b,
                                         !.reader = reader]
    /\ UNCHANGED ctxFrame

\* Client.do: body, err = ioutil.ReadAll(read); if err != nil return nil,
\* err.  A Read of the body fails once the context is done.
CtxReadChecked ==
    /\ bench.pc = "reading" /\ bench.reader = "Client.do"
    /\ IF isCancelled(bench) THEN SendReturns("error", <<>>)
       ELSE IF bench.read < Len(bench.resp)
       THEN bench' = [bench EXCEPT !.read = @ + 1]
       ELSE SendReturns("ok", bench.resp)
    /\ UNCHANGED ctxFrame

\* Response.process: r.body, _ = ioutil.ReadAll(body); the bytes read up to
\* the error are the body and the error is dropped
CtxReadProcess ==
    /\ bench.pc = "reading" /\ bench.reader = "process"
    /\ IF isCancelled(bench)
       THEN SendReturns("ok", SubSeq(bench.resp, 1, bench.read))
       ELSE IF bench.read < Len(bench.resp)
       THEN bench' = [bench EXCEPT !.read = @ + 1]
       ELSE SendReturns("ok", bench.resp)
    /\ UNCHANGED ctxFrame

CtxInit ==
    /\ pairs = <<>>
    /\ arrays = <<>>
    /\ st = [s |-> NilSlice, c |-> NilSlice]
    /\ cloned = FALSE
    /\ res = [ptr |-> 0, ok |-> FALSE]
    /\ op = NoOp
    /\ nops = 0
    /\ RequestIdle
    /\ CacheIdle
    /\ thr = <<>>
    /\ bench = NoSend

CtxNext ==
    \/ CtxSetContext
    \/ CtxSetDeadline
    \/ CtxCancel
    \/ CtxExpire
    \/ CtxDispatch
    \/ CtxRespond
    \/ CtxReadChecked
    \/ CtxReadProcess

\* the send goes on: the transport and the reads of the body return
CtxSpec ==
    /\ CtxInit /\ [][CtxNext]_vars
    /\ WF_vars(CtxDispatch) /\ WF_vars(CtxRespond)
    /\ WF_vars(CtxReadChecked) /\ WF_vars(CtxReadProcess)

----------------------------------------------------------------------------
(* A caller who configures a template r, clones it and sends both.  bench  *)
(* is the caller's record of the headers it has set on each request: how   *)
(* often it added X-Id and whether it set the user agent.                  *)

MaxAsmOps == 7

AsmURL == "http://h/{p}"

NoHeaders == [xid |-> 0, ua |-> FALSE]

\* a setter call on request x with result a; set is the caller's record of
\* the headers of x afterwards
AsmSet(kind, x, set, call) ==
    /\ \E a \in {call} :
          /\ HeapBecomes(a.G)
          /\ reqs' = [reqs EXCEPT ![x] = a.q]
    /\ bench' = [bench EXCEPT ![x] = set]
    /\ op' = [kind |-> kind, target |-> x, param |-> "-", value |-> "-"]
    /\ nops' = nops + 1
    /\ UNCHANGED <<storeOnlyVars, cacheVars, thr, rcloned, sent, out>>

\* the template gets its X-Id headers before it is cloned
AsmAddHeader ==
    /\ nops < MaxAsmOps
    /\ ~rcloned
    /\ AsmSet("AddHeader", "r", [bench.r EXCEPT !.xid = @ + 1],
              AddHeader(GHeap, reqs.r, "x-id", "v1"))

AsmSetUserAgent ==
    /\ nops < MaxAsmOps
    /\ \E x \in ReqTargets :
          AsmSet("SetUserAgent", x, [bench[x] EXCEPT !.ua = TRUE],
                 SetUserAgent(GHeap, reqs[x], "ua"))

AsmSetForm ==
    /\ nops < MaxAsmOps
    /\ reqs.r.formParam.len = 0
    /\ AsmSet("SetForm", "r", bench.r, SetForm(GHeap, reqs.r, "f", "v1"))

AsmSetFile ==
    /\ nops < MaxAsmOps
    /\ reqs.r.multiFiles.len = 0
    /\ AsmSet("SetFile", "r", bench.r,
              Bind(NewReader(GHeap, <<"hello">>, FALSE), LAMBDA rd :
                  SetFile(rd.G, reqs.r, "upload", "upload.txt", "text/plain", rd.ptr)))

AsmSetBody ==
    /\ nops < MaxAsmOps
    /\ reqs.r.body = 0
    /\ AsmSet("SetBody", "r", bench.r,
              Bind(NewReader(GHeap, <<"raw">>, FALSE), LAMBDA rd :
                  SetBody(rd.G, reqs.r, rd.ptr)))

AsmClone ==
    /\ ~rcloned
    /\ reqs' = [reqs EXCEPT !.n = Clone(reqs.r)]
    /\ rcloned' = TRUE
    /\ bench' = [bench EXCEPT !.n = bench.r]
    /\ op' = [kind |-> "Clone", target |-> "r", param |-> "-", value |-> "-"]
    /\ UNCHANGED <<pairs, arrays, urls, readers, mfiles, storeOnlyVars, cacheVars,
                   thr, nops, sent, out>>

\* x.Get(AsmURL), taken by the transport
AsmGet ==
    /\ nops < MaxAsmOps
    /\ \E x \in ReqTargets :
          /\ \E d \in {MethodURL(GHeap, reqs[x], "GET", AsmURL, TRUE)} :
                /\ HeapBecomes(d.G)
                /\ sent' = IF d.out = "ok" THEN Append(sent, d.wire) ELSE sent
                /\ out' = d.out
          /\ op' = [kind |-> "GET", target |-> x, param |-> AsmURL, value |-> "-"]
    /\ nops' = nops + 1
    /\ UNCHANGED <<storeOnlyVars, cacheVars, auxVars, reqs, rcloned>>

AsmInit ==
    /\ pairs = <<>>
    /\ arrays = <<>>
    /\ st = [s |-> NilSlice, c |-> NilSlice]
    /\ cloned = FALSE
    /\ res = [ptr |-> 0, ok |-> FALSE]
    /\ op = NoOp
    /\ nops = 0
    /\ RequestIdle
    /\ CacheIdle
    /\ thr = <<>>
    /\ bench = [r |-> NoHeaders, n |-> NoHeaders]

AsmNext ==
    \/ AsmAddHeader
    \/ AsmSetUserAgent
    \/ AsmSetForm
    \/ AsmSetFile
    \/ AsmSetBody
    \/ AsmClone
    \/ AsmGet

AssembleSpec == AsmInit /\ [][AsmNext]_vars

----------------------------------------------------------------------------
(* Properties of sending and cloning requests                              *)

\* what a caller can observe of the parameters and files of request x
Params(x) ==
    [header |-> View(GHeap, reqs[x].headerParam),
     query  |-> View(GHeap, reqs[x].queryParam),
     path   |-> View(GHeap, reqs[x].pathParam),
     form   |-> View(GHeap, reqs[x].formParam),
     files  |-> [k \in 1..reqs[x].multiFiles.len |->
                    mfiles[arrays[reqs[x].multiFiles.arr][k]]]]

\* the path and raw query of the base URL of request x, <<>> when it is nil
BaseURL(x) ==
    IF reqs[x].baseURL = 0 THEN <<>>
    ELSE <<urls[reqs[x].baseURL].Path, urls[reqs[x].baseURL].RawQuery>>

\* the bytes the body of request x still yields, <<>> when it has none
BodyLeft(x) ==
    IF reqs[x].body = 0 THEN <<>> ELSE Remaining(GHeap, reqs[x].body)

SendKinds == {"Do"} \cup Methods

SetterKinds ==
    {"SetURL", "SetMethod", "SetHeader", "AddHeader", "AddHeaderIfNot",
     "SetPath", "AddPathIfNot", "SetQuery", "AddQuery", "AddQueryIfNot",
     "SetForm", "AddForm", "AddFormIfNot", "SetFile", "SetBody", "SetJSON",
     "SetXML", "SetContentType", "SetBasicAuth", "SetAuthToken", "SetUserAgent"}

\* a send has just returned
Sends == nops' = nops + 1 /\ op'.kind \in SendKinds

\* a setter has just returned
Sets == nops' = nops + 1 /\ op'.kind \in SetterKinds

\* C1: a send (Do, Get, Post, ...) leaves the request it is called on as it
\* was: base URL path and raw query, header, query, path and form
\* parameters, files and body; and two r.Do() in a row that both reach the
\* transport hand it the same request.
C1_SendLeavesTemplate ==
    [][\A x \in {"r", "n"} : (Sends /\ op'.target = x) =>
          /\ BaseURL(x)' = BaseURL(x)
          /\ Params(x)' = Params(x)
          /\ BodyLeft(x)' = BodyLeft(x)
          /\ (/\ op.kind = "Do" /\ op'.kind = "Do" /\ op.target = x
              /\ out = "ok" /\ out' = "ok")
             => sent'[Len(sent')] = sent[Len(sent)]]_vars

\* C2: once n = r.Clone() is taken, a setter called on n leaves the header,
\* query, path and form parameters and the files of r as they were, and a
\* setter called on r leaves those of n as they were.
C2_CloneIndependent ==
    [][(Sets /\ rcloned) =>
          /\ op'.target = "n" => Params("r")' = Params("r")
          /\ op'.target = "r" => Params("n")' = Params("n")]_vars

----------------------------------------------------------------------------
(* Properties of the caches                                                *)

\* a Load of the name the call before it saved cur under, on the same
\* backend
LoadAfterSave(target) ==
    /\ nops' = nops + 1
    /\ op.kind = "Save" /\ op.target = target /\ got.err = "nil"
    /\ op'.kind = "Load" /\ op'.target = target /\ op'.param = op.param

\* C9: on a cache obtained from MemoryCache(), Load(key) right after
\* Save(key, resp) has returned finds resp.
C9_MemoryRoundTrip ==
    [][LoadAfterSave("memory") =>
          got'.err = "nil" /\ got'.resp = cur]_vars

\* C10: on a file cache, Load(key) right after a successful Save(key, resp)
\* returns a response with the status code, the header and the body bytes
\* of resp, whatever its content type and charset.
C10_FileRoundTrip ==
    [][LoadAfterSave("file") =>
          /\ got'.err = "nil"
          /\ got'.resp[1].StatusCode = cur[1].StatusCode
          /\ got'.resp[1].ContentType = cur[1].ContentType
          /\ got'.resp[1].body = cur[1].body]_vars

----------------------------------------------------------------------------
(* Properties of the parameter store                                       *)

StoreIds == {"s", "c"}

\* a mutating store operation (Add, AddReplace, AddNoRepeat) has just run
Mutated == nops' = nops + 1 /\ op'.kind \in {"Add", "AddReplace", "AddNoRepeat"}

\* positions of the entries named name in a view
Matches(v, name) == {k \in 1..Len(v) : v[k].Param = name}

\* v with position k removed
Without(v, k) == [j \in 1..(Len(v) - 1) |-> IF j < k THEN v[j] ELSE v[j + 1]]

\* new is old with exactly one entry (param, value) inserted
InsertedOne(old, new, param, value) ==
    /\ Len(new) = Len(old) + 1
    /\ \E k \in 1..Len(new) :
          /\ new[k] = [Param |-> param, Value |-> value]
          /\ Without(new, k) = old

NonIncreasing(v) == \A k \in 1..(Len(v) - 1) : ~StrLess(v[k].Param, v[k + 1].Param)

NonDecreasing(v) == \A k \in 1..(Len(v) - 1) : ~StrLess(v[k + 1].Param, v[k].Param)

\* the closure of SearchIndex is false on a prefix and true on the rest,
\* which is what sort.Search requires
SearchValid(H, t, name) ==
    \A i \in 0..(t.len - 1) : \A j \in i..(t.len - 1) :
        SearchPred(H, t, name, i) => SearchPred(H, t, name, j)

\* C3 (as claimed): after c = s.Clone(), c holds the entries of s in the same
\* order, and no Add, AddReplace or AddNoRepeat on c changes a name or value
\* observable through s, nor does such a call on s change c.
C3_CloneIndependent ==
    [][/\ (op'.kind = "Clone" /\ ~cloned) =>
             View(Heap', st'.c) = View(Heap, st.s)
       /\ (cloned /\ Mutated /\ op'.target = "c") =>
             View(Heap', st'.s) = View(Heap, st.s)
       /\ (cloned /\ Mutated /\ op'.target = "s") =>
             View(Heap', st'.c) = View(Heap, st.c)]_vars

\* C4: after every Add, AddReplace and AddNoRepeat on a store that started
\* empty the names are monotone along the whole sequence, and the predicate
\* of the binary search is valid for every name the next operation may pass.
C4_SortedByName ==
    \A x \in StoreIds :
        /\ NonIncreasing(View(Heap, st[x])) \/ NonDecreasing(View(Heap, st[x]))
        /\ \A name \in StoreNames : SearchValid(Heap, st[x], name)

C4_Witness ==
    /\ st.s.len = 3
    /\ Cardinality({View(Heap, st.s)[k].Param : k \in 1..3}) = 3
    /\ op.kind = "AddNoRepeat"

\* entries sharing a name are contiguous, and in order of allocation
\* (pointers are allocated in increasing order, so this is insertion order)
ContiguousInOrder(H, t) ==
    LET v == View(H, t)
        p == Ptrs(H, t)
    IN  \A i \in 1..t.len : \A j \in i..t.len :
            v[i].Param = v[j].Param =>
                /\ i < j => p[i] < p[j]
                /\ \A k \in i..j : v[k].Param = v[i].Param

\* C5: entries sharing a name are contiguous and in insertion order, and an
\* Add of a name that exists puts the new entry right after all of them.
C5_DuplicatesContiguous ==
    [][/\ \A x \in StoreIds : ContiguousInOrder(Heap', st'[x])
       /\ (Mutated /\ op'.kind = "Add") =>
             LET x   == op'.target
                 old == View(Heap, st[x])
                 new == View(Heap', st'[x])
                 m   == Matches(old, op'.param)
             IN  /\ Len(new) = Len(old) + 1
                 /\ m # {} =>
                       LET last == CHOOSE k \in m : \A j \in m : j <= k
                       IN  /\ Ptrs(Heap', st'[x])[last + 1] = Len(pairs')
                           /\ new[last + 1] = [Param |-> op'.param, Value |-> op'.value]
                           /\ Without(new, last + 1) = old]_vars

C5_Witness ==
    /\ op.kind = "Add"
    /\ Cardinality(Matches(View(Heap, st[op.target]), op.param)) = 3

\* C6: AddReplace(name, v) on a store holding name overwrites the value of
\* one entry of that name and changes nothing else; otherwise it inserts
\* exactly one entry (name, v).
C6_AddReplace ==
    [][(Mutated /\ op'.kind = "AddReplace") =>
          LET x   == op'.target
              old == View(Heap, st[x])
              new == View(Heap', st'[x])
              m   == Matches(old, op'.param)
          IN  IF m # {}
              THEN /\ Len(new) = Len(old)
                   /\ Ptrs(Heap', st'[x]) = Ptrs(Heap, st[x])
                   /\ \E k \in m : new = [old EXCEPT ![k].Value = op'.value]
              ELSE InsertedOne(old, new, op'.param, op'.value)]_vars

\* Add(name, v1); AddReplace(name, v2) has left one entry, with value v2
C6_Witness ==
    /\ op.kind = "AddReplace"
    /\ nops = 2
    /\ View(Heap, st.s) = <<[Param |-> op.param, Value |-> "v2"]>>
    /\ pairs = <<[Param |-> op.param, Value |-> "v2"]>>

\* C7: AddNoRepeat(name, v) on a store holding name changes nothing;
\* otherwise it inserts exactly one entry (name, v).
C7_AddNoRepeat ==
    [][(Mutated /\ op'.kind = "AddNoRepeat") =>
          LET x   == op'.target
              old == View(Heap, st[x])
              new == View(Heap', st'[x])
          IN  IF Matches(old, op'.param) # {}
              THEN /\ new = old
                   /\ Ptrs(Heap', st'[x]) = Ptrs(Heap, st[x])
                   /\ pairs' = pairs
              ELSE InsertedOne(old, new, op'.param, op'.value)]_vars

\* Add(name, v1); AddNoRepeat(name, v2) has left the value v1
C7_Witness ==
    /\ op.kind = "AddNoRepeat"
    /\ op.value = "v2"
    /\ nops = 2
    /\ View(Heap, st.s) = <<[Param |-> op.param, Value |-> "v1"]>>

\* the result Search would give if it returned the match at index k
FoundAt(H, t, k) == [ptr |-> Ptrs(H, t)[k], ok |-> TRUE]

NotFound == [ptr |-> 0, ok |-> FALSE]

\* C8 (as claimed): Search(name) returns the matching entry at the lowest
\* index, the one added earliest.
C8_SearchFirst ==
    op.kind = "Search" =>
        LET t == st[op.target]
            m == Matches(View(Heap, t), op.param)
        IN  IF m = {} THEN res = NotFound
            ELSE res = FoundAt(Heap, t, CHOOSE k \in m : \A j \in m : k <= j)

\* C8 (amended): Search(name) returns the matching entry at the highest
\* index, the one added last; it reports not found exactly when no entry
\* has the name.
C8_SearchLast ==
    op.kind = "Search" =>
        LET t == st[op.target]
            m == Matches(View(Heap, t), op.param)
        IN  IF m = {} THEN res = NotFound
            ELSE /\ res = FoundAt(Heap, t, CHOOSE k \in m : \A j \in m : j <= k)
                 /\ \A k \in m : Ptrs(Heap, t)[k] <= res.ptr

C8_Witness ==
    /\ op.kind = "Search"
    /\ res.ok
    /\ Cardinality(Matches(View(Heap, st[op.target]), op.param)) >= 2
    /\ Cardinality({View(Heap, st[op.target])[k].Value :
                        k \in Matches(View(Heap, st[op.target]), op.param)}) = 2

----------------------------------------------------------------------------
(* Properties of Del                                                       *)

\* the entry backend target holds under name, <<>> when there is none
Entry(target, name) == IF target = "memory" THEN mem[name] ELSE disk[name]

\* a cache call of this kind has just returned
Called(kind) == nops' = nops + 1 /\ op'.kind = kind

\* C11: on both backends Del(key) returns no error whether or not there is
\* an entry, leaves no entry under key and leaves the entries under other
\* keys as they were; an entry appears under a key only by a Save of that
\* key, and a Load of a key without entry reports "not exist" - so a Load
\* that follows a Del with no Save in between reports "not exist".
C11_Del ==
    [][\A b \in {"memory", "file"}, k \in CacheKeys :
          /\ (Called("Del") /\ op'.target = b /\ op'.param = k) =>
                /\ got'.err = "nil"
                /\ Entry(b, k)' = <<>>
                /\ \A j \in CacheKeys \ {k} : Entry(b, j)' = Entry(b, j)
          /\ (Called("Load") /\ op'.target = b /\ op'.param = k
                /\ Entry(b, k) = <<>>) =>
                got'.err = "not exist" /\ got'.resp = <<>>
          /\ (Entry(b, k) = <<>> /\ Entry(b, k)' # <<>>) =>
                (Called("Save") /\ op'.target = b /\ op'.param = k)]_vars

\* a Del on the file backend has removed the entry the Save before it wrote
C11_Witness ==
    /\ op.kind = "Del" /\ op.target = "file"
    /\ op.after = <<"Save", "file", op.param, "nil">>
    /\ disk[op.param] = <<>>
    /\ got.err = "nil"


----------------------------------------------------------------------------
(* Properties of concurrent callers                                        *)

\* goroutine t has returned from a call of kind on backend target
Returned(t, kind, target) ==
    thr[t].pc = "done" /\ thr[t].kind = kind /\ thr[t].target = target

\* C12: a Load of the file cache that does not return a response returns
\* ErrNotExist, whatever made it fail; it returns no other error
C12_LoadFailSoft ==
    \A t \in Goroutines :
        Returned(t, "Load", "file") => thr[t].ret.err \in {"nil", "not exist"}

\* C14: with goroutines calling Save, Load and Del on one in-memory cache,
\* every Load of a key returns either not-found or, whole, a response that
\* a Save of that key was given, and a call on one key changes the entry
\* of no other key
C14_MemoryConcurrent ==
    [][\A t \in Goroutines :
          /\ Returned(t, "Load", "memory")' =>
                \/ thr'[t].ret = [err |-> "not exist", resp |-> <<>>]
                \/ /\ thr'[t].ret.err = "nil"
                   /\ \E r \in RaceResponses :
                         /\ thr'[t].ret.resp = <<r>>
                         /\ <<"memory", thr'[t].name, r>> \in bench'
          /\ (thr[t].pc = "memory" /\ thr'[t].pc = "done") =>
                \A k \in CacheKeys \ {thr[t].name} :
                    mem'[k] = mem[k] /\ thr'[t].f[k] = thr[t].f[k]]_vars

\* a Load of a key has returned after a Save of the same key by the other
\* goroutine stored its entry
C14_Witness ==
    \E t, u \in Goroutines :
        /\ Returned(t, "Load", "memory")
        /\ Returned(u, "Save", "memory")
        /\ thr[u].name = thr[t].name
        /\ thr[u].f[thr[u].name] = thr[u].resp
        /\ thr[t].ret.err = "not exist"

\* the text Save writes for the response goroutine t was called with
Written(t) == MarshalText(thr[t].resp[1]).text

\* C15: once two Save calls of the file cache for one key have both
\* returned, the file holds the whole text of one of the two responses and
\* a Load of the key returns that response
C15_LastWriterWins ==
    \A t, u \in Goroutines :
        (/\ t # u
         /\ Returned(t, "Save", "file") /\ Returned(u, "Save", "file")
         /\ thr[t].name = thr[u].name
         /\ thr[t].ret.err = "nil" /\ thr[u].ret.err = "nil") =>
            \E w \in {t, u} :
                /\ disk[thr[t].name] = <<Written(w)>>
                /\ fileLoad(disk, thr[t].name) = [err |-> "nil", resp |-> thr[w].resp]

----------------------------------------------------------------------------
(* Properties of cache keys                                                *)

\* two Hash calls on one backend that both returned a key
HashPairs ==
    { ij \in (DOMAIN bench) \X (DOMAIN bench) :
        /\ bench[ij[1]].backend = bench[ij[2]].backend
        /\ bench[ij[1]].err = "nil" /\ bench[ij[2]].err = "nil" }

\* the raw requests agree on method, URL and headers
SameLogical(a, b) ==
    /\ a.method = b.method
    /\ a.host = b.host /\ a.path = b.path /\ a.query = b.query
    /\ a.header = b.header

----------------------------------------------------------------------------
(* Properties of the multipart body of a send                              *)

\* the readers of the files attached to request x
FileReaders(x) == {Params(x).files[k].Reader : k \in 1..reqs[x].multiFiles.len}

\* a send on request x encodes its files: no body is set, files are attached
EncodesFiles(x) == reqs[x].body = 0 /\ reqs[x].multiFiles.len # 0

\* C16: a send whose multipart encoding fails on a read error of an
\* attachment returns an error, the transport is not invoked and nothing
\* is dispatched; the one send that does not return is the one that
\* dereferences a nil base URL to fill path or query before it encodes
C16_EncodeFailure ==
    [][\A x \in {"r", "n"} :
          (/\ Sends /\ op'.target = x
           /\ EncodesFiles(x)
           /\ \E p \in FileReaders(x) : readers[p].err) =>
              /\ out' \in {"error", "panic"}
              /\ sent' = sent
              /\ out' = "panic" =>
                    (Params(x).path # <<>> \/ Params(x).query # <<>>)]_vars

\* a send with a failing attachment has returned the error
C16_Witness ==
    /\ op.kind \in SendKinds
    /\ EncodesFiles(op.target)
    /\ \E p \in FileReaders(op.target) : readers[p].err
    /\ reqs[op.target].baseURL # 0
    /\ out = "error"
    /\ sent = <<>>

\* C17: a send that encodes an attachment whose stream has already been
\* read to its end reports an error; it dispatches no body with an empty
\* file part
C17_ConsumedOnce ==
    [][\A x \in {"r", "n"} :
          (/\ Sends /\ op'.target = x
           /\ EncodesFiles(x)
           /\ \E p \in FileReaders(x) :
                 readers[p].data # <<>> /\ Remaining(GHeap, p) = <<>>) =>
              out' \in {"error", "panic"} /\ sent' = sent]_vars

\* C18: the multipart body a send dispatches holds one field part per form
\* parameter in store order, then one file part per attachment in
\* attachment order, each with the field name, the file name, the content
\* type the attachment was given and the bytes of its stream
C18_MultipartParts ==
    [][\A x \in {"r", "n"} :
          (/\ Sends /\ op'.target = x
           /\ EncodesFiles(x)
           /\ out' = "ok") =>
              /\ sent' = Append(sent, sent'[Len(sent')])
              /\ sent'[Len(sent')].body.kind = "multipart"
              /\ sent'[Len(sent')].body.fields = PairSeq(Params(x).form)
              /\ sent'[Len(sent')].body.files =
                    [k \in 1..reqs[x].multiFiles.len |->
                        [Param |-> Params(x).files[k].Param,
                         FileName |-> Params(x).files[k].FileName,
                         ContentType |-> Params(x).files[k].ContentType,
                         data |-> Remaining(GHeap, Params(x).files[k].Reader)]]]_vars

----------------------------------------------------------------------------
(* Properties of toPath on a path string                                   *)

\* every "{" of x is closed inside x
Closed(x) ==
    \A i \in Positions(x, "{") : \E j \in Positions(x, "}") : j > i

\* the value toPath substitutes for name k: that of the first entry of the
\* store named k, after the transformer; <<>> when there is no entry
Substitute(k) ==
    LET m == {n \in 1..Len(bench.p) : bench.p[n].Param = k}
    IN  IF m = {} THEN <<>>
        ELSE <<TransformString(bench.tr,
                  bench.p[CHOOSE x \in m : \A y \in m : x <= y].Value)>>

\* C19: toPath replaces a placeholder {k} by the value of the parameter
\* named k and leaves it as it is when there is none; text without a
\* placeholder is unchanged; and the placeholders are resolved one by one:
\* the result for a template is the result for any prefix that closes its
\* braces followed by the result for the rest
C19_ToPath ==
    /\ (\A i \in Positions(bench.path, "{") :
           \A j \in Positions(bench.path, "}") : j < i) =>
              bench.result = bench.path
    /\ \A k \in {"id", "missing", "a"} :
          bench.path = <<"{", k, "}">> =>
              bench.result = IF Substitute(k) = <<>> THEN bench.path
                             ELSE Substitute(k)
    /\ \A i \in 0..Len(bench.path) :
          Closed(SubSeq(bench.path, 1, i)) =>
              bench.result =
                  toPathString(SubSeq(bench.path, 1, i), bench.p, bench.tr)
                      \o toPathString(SubSeq(bench.path, i + 1, Len(bench.path)),
                                      bench.p, bench.tr)

\* template /a{id}{missing}/b with id=42 gave /a42{missing}/b
C19_Witness ==
    /\ bench.path = <<"/", "a", "{", "id", "}", "{", "missing", "}", "/", "b">>
    /\ bench.p = <<[Param |-> "id", Value |-> "42"]>>
    /\ bench.result = <<"/", "a", "42", "{", "missing", "}", "/", "b">>

----------------------------------------------------------------------------
(* Properties of TestParam                                                 *)

\* the five setters have been called and Post has not
Configured ==
    bench = {"SetURL", "SetPath", "SetQuery", "SetForm", "SetBasicAuth"}

----------------------------------------------------------------------------
(* Properties of charset detection                                         *)

\* the content type TryCharset was called with, parsed
Given == ParseMediaType(bench.contentType)

\* the charset of the content type names an encoding
Resolves(mt) == mt.ok /\ mt.charset # <<>> /\ Lookup(mt.charset[1]) # ""

\* C21: for a content type whose charset names a known encoding other
\* than the identity, TryCharset returns the body decoded from it and the
\* content type with charset=utf-8, media type and other parameters as
\* they were
C21_CharsetRewritten ==
    (bench.fn = "TryCharset" /\ Resolves(Given) /\ Given.charset # <<"utf-8">>) =>
        /\ bench.err = "nil"
        /\ bench.r = Decode(Lookup(Given.charset[1]), bench.body)
        /\ bench.n = FormatMediaType(Given.mediatype, "utf-8", Given.other)

\* C22: for content type text/html and a body whose <head> declares
\* <meta charset="iso-8859-1"> and no other charset, TryCharset returns
\* the body decoded from that encoding
C22_MetaCharset ==
    (/\ bench.fn = "TryCharset" /\ bench.contentType = "text/html"
     /\ MetaCharsetLatin1 \in {HeadOf(bench.body)[i] : i \in 1..Len(HeadOf(bench.body))}
     /\ \A i \in 1..Len(bench.body) :
           bench.body[i] \notin {MetaHttpEquivLatin1, MetaHttpEquivUnknown}) =>
        bench.r = DecodeAll(bench.body)

\* the first <meta http-equiv="Content-Type"> of <head> names a known
\* encoding
DeclaresLatin1(body) ==
    LET metas == SelectSeq(HeadOf(body), LAMBDA e : MetaContent(e) # "")
    IN  metas # <<>> /\ metas[1] = MetaHttpEquivLatin1

\* C23: for a text/html content type without charset parameter, or with
\* one that names no known encoding, TryCharset applies the charset the
\* document declares when that one resolves
C23_HTMLFallback ==
    (/\ bench.fn = "TryCharset" /\ Given.ok /\ Given.mediatype = "text/html"
     /\ ~Resolves(Given)
     /\ DeclaresLatin1(bench.body)) =>
        bench.r = DecodeAll(bench.body)

\* C24: the reader TryHTMLCharset returns yields the whole body from its
\* first byte: the bytes as they were, or, with the content type it
\* returns rewritten to charset=utf-8, the decoding of all of them
C24_NonDestructive ==
    (bench.fn = "TryHTMLCharset" /\ bench.err = "nil") =>
        \/ bench.r = bench.body
        \/ /\ bench.n = "text/html; charset=utf-8"
           /\ bench.r = DecodeAll(bench.body)
           /\ DeclaresLatin1(bench.body)

\* a body with a declaration and a byte above 127 after it was decoded
C24_Witness ==
    /\ bench.fn = "TryHTMLCharset"
    /\ bench.body = <<MetaHttpEquivLatin1, 65, 233>>
    /\ bench.r = <<MetaHttpEquivLatin1, 65, 195, 169>>

\* C25: for a content type that does not parse, or names an unknown
\* charset, or names the identity charset utf-8, TryCharset returns the
\* bytes and the content type it was given and no error
C25_NoTransform ==
    (/\ bench.fn = "TryCharset"
     /\ \/ ~Given.ok
        \/ Given.charset # <<>> /\ Lookup(Given.charset[1]) = ""
        \/ Given.charset = <<"utf-8">>) =>
        /\ bench.err = "nil"
        /\ bench.r = bench.body
        /\ bench.n = bench.contentType

\* the number of entries of a view whose name is >= name
CountGE(v, name) == Cardinality({k \in 1..Len(v) : ~StrLess(v[k].Param, name)})

\* C28: the names of every store are in non-increasing order,
\* SearchIndex(name) is the number of entries whose name is >= name, and
\* Add(name, value) puts the new entry at the index SearchIndex(name) gave
\* and leaves the other entries in their order
C28_DescendingOrder ==
    [][/\ \A x \in StoreIds :
             /\ NonIncreasing(View(Heap', st'[x]))
             /\ \A name \in StoreNames :
                   SearchIndex(Heap', st'[x], name) = CountGE(View(Heap', st'[x]), name)
       /\ (Mutated /\ op'.kind = "Add") =>
             LET x   == op'.target
                 i   == SearchIndex(Heap, st[x], op'.param)
                 new == View(Heap', st'[x])
             IN  /\ Len(new) = st[x].len + 1
                 /\ Ptrs(Heap', st'[x])[i + 1] = Len(pairs')
                 /\ new[i + 1] = [Param |-> op'.param, Value |-> op'.value]
                 /\ Without(new, i + 1) = View(Heap, st[x])]_vars

\* an Add has put an entry between a greater and a smaller name
C28_Witness ==
    /\ op.kind = "Add" /\ op.param = "ab"
    /\ LET v == View(Heap, st[op.target])
       IN  /\ Len(v) = 3
           /\ v[1].Param = "b" /\ v[2].Param = "ab" /\ v[3].Param = "a"

\* the derived content type of an assembled body; none for a body set by
\* the caller
DerivedContentType(kind) ==
    CASE kind = "multipart" -> <<MimeMultipartBoundary>>
      [] kind = "form" -> <<MimeURLEncoded>>
      [] OTHER -> <<>>

\* the values of header k on wire request w
HeaderValues(w, k) == IF k \in DOMAIN w.header THEN w.header[k] ELSE <<>>

\* C29: the request a Get dispatches carries the body the caller set, with
\* no form field and no file encoded; else, with a file attached, the
\* multipart encoding of the form fields and the files; else the
\* url-encoded form.  Its headers are the ones the caller set, each once per
\* call, plus the derived Content-Type and the default User-Agent where the
\* caller set none.
C29_AssemblyPrecedence ==
    (op.kind = "GET" /\ out = "ok") =>
        LET q == reqs[op.target]
            w == sent[Len(sent)]
            set == bench[op.target]
            form == PairSeq(View(GHeap, q.formParam))
        IN  /\ q.body # 0 =>
                  /\ w.body.kind = "raw"
                  /\ w.body.fields = <<>> /\ w.body.files = <<>>
            /\ (q.body = 0 /\ q.multiFiles.len # 0) =>
                  /\ w.body.kind = "multipart"
                  /\ w.body.fields = form
                  /\ Len(w.body.files) = q.multiFiles.len
            /\ (q.body = 0 /\ q.multiFiles.len = 0) =>
                  /\ w.body.kind = "form"
                  /\ w.body.fields = EncodeValues(form) /\ w.body.files = <<>>
            /\ HeaderValues(w, "X-Id") = [i \in 1..set.xid |-> "v1"]
            /\ HeaderValues(w, HeaderUserAgent)
                  = IF set.ua THEN <<"ua">> ELSE <<DefaultUserAgentValue>>
            /\ HeaderValues(w, HeaderContentType) = DerivedContentType(w.body.kind)
            /\ DOMAIN w.header \subseteq {"X-Id", HeaderUserAgent, HeaderContentType}

\* the segments of a host and a path that are not empty
Components(req) ==
    (IF req.host = "" THEN <<>> ELSE <<<<"http">>, <<req.host>>>>)
        \o SelectSeq(Segments(req.path), LAMBDA e : e # <<>>)

\* C30: the file that Save, Load and Del work on for the key Hash returns
\* lies inside the cache root and is root/scheme/host/path/<digest>: the
\* root, then scheme and host where the URL has them, then the segments of
\* the URL path, then the digest of the request
C30_InsideRoot ==
    \A i \in DOMAIN bench :
        (bench[i].backend = "file" /\ bench[i].err = "nil") =>
            /\ filePath(CacheRoot, bench[i].key) = <<CacheRoot>> \o Components(bench[i].req)
            /\ bench[i].key.h = RequestHash(bench[i].req)

\* the step is a setter that hit a configuration error: SetURL with a URL
\* that does not parse, SetJSON or SetXML with a value that does not marshal
FailedSetter ==
    /\ nops' = nops + 1
    /\ \/ op'.kind = "SetURL" /\ ~ParseRef(op'.param).ok
       \/ op'.kind \in {"SetJSON", "SetXML"} /\ op'.param = "unsupported"

\* C27: a setter that hits a configuration error leaves the base URL, the
\* header, query, path and form parameters and the body of the request as
\* they were
C27_FailedSetterKeeps ==
    [][FailedSetter => /\ reqs' = reqs
                       /\ <<pairs, arrays, urls, readers, mfiles>>'
                            = <<pairs, arrays, urls, readers, mfiles>>]_vars

----------------------------------------------------------------------------
(* Properties of a send under a context                                    *)

====
